---- MODULE Spec2Model ----
(***************************************************************************)
(* State-machine model of the voltage-demo-wallet UI components:           *)
(*   - LightningReceive  (src/app/components/LightningReceive.tsx)         *)
(*   - LightningSend     (src/app/components/LightningSend.tsx)            *)
(*   - TransactionHistory, client-side filtered variant                    *)
(*                       (src/unnamed/part_002)                            *)
(*   - EventBus          (src/app/page.tsx, lines 48-102)                  *)
(* The LND node and the FLNDR client are the environment: every call       *)
(* either resolves with a value drawn from a bounded set or rejects.       *)
(* A React handler that awaits a node call is split at the await: the      *)
(* click action records the values its closure captured, the resolve /     *)
(* reject actions continue from them.  State updates of one synchronous    *)
(* run are batched, so each run is one action.                             *)
(* Strings that the source converts to or from numbers are sequences of    *)
(* decimal digits; Number/parseInt and number-to-string are operators.     *)
(* Display-only timers (successMessage, copyMessage, checkingPayment) are  *)
(* not part of the model.                                                  *)
(***************************************************************************)
EXTENDS Integers, Sequences, FiniteSets, TLC

\* ------------------------------------------------------------------ bounds
MaxAmount == 2
MaxInvoices == 2
MaxLines == 3
MaxList == 1
MaxChangesInFlight == 1
MaxListeners == 2
MaxEmits == 2
MaxPushEvents == 1
MaxPending == 2
MaxRows == 2
MaxTimers == 1
MaxOffsetPending == 2
MaxOffsetRows == 2
MaxAll == 3
MaxAllPending == 2
PageSize == 2

\* --------------------------------------------------------------- constants
DefaultAmount == 10
MsatPerSat == 1000
DefaultExpiry == 3600
DaySeconds == 86400
DefaultLimit == 10
OffsetPageSize == 25
InitialFetchLimit == 1000

\* ----------------------------------------------------------------- helpers
Null == [null |-> TRUE]

Err(parts) == [msg |-> parts]

Digits == 0..9

RECURSIVE NumberToString(_)
\* JavaScript `n + ''` for a non-negative integer below 1e21: its decimal digits.
NumberToString(n) ==
  IF n < 10 THEN <<n>> ELSE NumberToString(n \div 10) \o <<n % 10>>

RECURSIVE ParseNumber(_)
\* JavaScript Number(s) / parseInt(s) for a non-empty string of decimal digits.
ParseNumber(s) ==
  IF Len(s) = 1 THEN s[1]
  ELSE ParseNumber(SubSeq(s, 1, Len(s) - 1)) * 10 + s[Len(s)]

\* --------------------------------------------------------------- variables
VARIABLES
  now,            \* wall clock, seconds (Date.now() / 1000)
  emitted,        \* event bus: log of emit(event, payload) calls
  events,         \* event bus: the Map from event name to its callback array
  invoked,        \* event bus: log of the callback invocations made by emit
  nodeInvoices,   \* node: hashes of the invoices it created, in order
  nodeSettled,    \* node: hashes of the invoices that have been paid
  amount,         \* LightningReceive state
  memo,
  invoice,
  rLoading,
  rError,
  recvCall,       \* LightningReceive: the node call awaited, with its closure
  paymentRequest, \* LightningSend state
  paymentResult,
  sLoading,
  sError,
  rawResponse,
  sendCall,       \* LightningSend: the sendPaymentV2 call awaited
  hPhase,         \* TransactionHistory: "initial", "mounted" or "unmounted"
  client,         \* TransactionHistory state
  transactions,
  filteredTransactions,
  hLoading,
  hError,
  currentPage,
  totalPages,
  filters,
  lastUpdated,
  openConnections, \* node client: streaming subscriptions that are open
  cleanup,        \* the mount effect's cleanup: the connections it closes
  loadCall,       \* TransactionHistory: the load awaited, with its closure
  filterChanges,  \* filter updates made since the awaited load started
  handlers,       \* node client: the listeners registered with lndClient.on
  delivered,      \* node client: log of the push events it has delivered
  cPhase,         \* cursor-paginated TransactionHistory: "initial" or "mounted"
  cLoading,       \* its state: loading, error, transactionData, filters,
  cError,         \* pagination
  transactionData,
  cFilters,
  pagination,
  filtersRef,     \* filtersRef.current
  paginationRef,  \* paginationRef.current
  cCalls,         \* the listTransactionHistory calls awaited, in issue order
  cTimers,        \* setTimeout(..., 0) callbacks that have not run yet
  oPhase,         \* offset-paginated TransactionHistory: "initial" or "mounted"
  oTransactions,  \* its state: transactions, loading, error, offset, hasMore,
  oLoading,       \* totalCount, selectedTypes
  oError,
  offset,
  hasMore,
  totalCount,
  selectedTypes,
  oCalls,         \* the listTransactionHistory calls awaited, in issue order
  aPhase,         \* fetch-all TransactionHistory: "initial" or "mounted"
  aTransactions,  \* its state: allTransactions, displayedTransactions,
  displayedTransactions, \* loading, error, currentPage, totalPages,
  aLoading,       \* totalCount, fetchLimit
  aError,
  aCurrentPage,
  aTotalPages,
  aTotalCount,
  fetchLimit,
  aCalls          \* the number of listTransactionHistory calls awaited

busVars == <<emitted, events, invoked>>
nodeVars == <<nodeInvoices, nodeSettled>>
recvVars == <<amount, memo, invoice, rLoading, rError, recvCall>>
sendVars == <<paymentRequest, paymentResult, sLoading, sError, rawResponse, sendCall>>
histVars == <<hPhase, client, transactions, filteredTransactions, hLoading, hError,
              currentPage, totalPages, filters, lastUpdated, openConnections,
              cleanup, loadCall, filterChanges, handlers, delivered>>
cursorVars == <<cPhase, cLoading, cError, transactionData, cFilters, pagination,
                filtersRef, paginationRef, cCalls, cTimers>>
offsetVars == <<oPhase, oTransactions, oLoading, oError, offset, hasMore, totalCount,
                selectedTypes, oCalls>>
allVars == <<aPhase, aTransactions, displayedTransactions, aLoading, aError,
             aCurrentPage, aTotalPages, aTotalCount, fetchLimit, aCalls>>
vars == <<now, busVars, nodeVars, recvVars, sendVars, histVars, cursorVars, offsetVars,
          allVars>>

\* ---------------------------------------------------------------- EventBus
AppEvent == {"transaction:new", "invoice:created", "payment:sent"}

\* emit(event, payload): the payload is identified by its hash.
Emit(log, event, id) == Append(log, [event |-> event, id |-> id])

EmitCount(log, event, id) ==
  Cardinality({i \in 1..Len(log) : log[i].event = event /\ log[i].id = id})

\* The callbacks a component can register: one that returns, one that throws.
EventCallbacks == {[name |-> "f", does |-> "return"], [name |-> "g", does |-> "throw"]}

\* Callbacks that use the bus while it is emitting: one unsubscribes itself,
\* one unsubscribes f, one subscribes f.
ReentrantCallbacks ==
  {[name |-> "u", does |-> "offSelf"],
   [name |-> "v", does |-> "off", target |-> [name |-> "f", does |-> "return"]],
   [name |-> "w", does |-> "on", target |-> [name |-> "f", does |-> "return"]]}

TotalListeners(evts) ==
  LET RECURSIVE Sum(_)
      Sum(S) == IF S = {} THEN 0
                ELSE LET e == CHOOSE x \in S : TRUE
                     IN Len(evts[e]) + Sum(S \ {e})
  IN Sum(DOMAIN evts)

\* Array.prototype.indexOf: the first index holding x, 0 when there is none.
IndexOf(arr, x) ==
  IF \E i \in 1..Len(arr) : arr[i] = x
  THEN CHOOSE i \in 1..Len(arr) : arr[i] = x /\ \A j \in 1..(i - 1) : arr[j] # x
  ELSE 0

\* Bug variant: the callbacks subscribed after the removed one go with it.
Splice_Truncate(arr, index) == SubSeq(arr, 1, index - 1)

\* callbacks.splice(index, 1)
Splice(arr, index) ==
  SubSeq(arr, 1, index - 1) \o SubSeq(arr, index + 1, Len(arr))

\* The registry after on(event, callback).
On(evts, event, callback) ==
  IF event \in DOMAIN evts
  THEN [evts EXCEPT ![event] = Append(@, callback)]
  ELSE [e \in DOMAIN evts \cup {event} |->
          IF e = event THEN <<callback>> ELSE evts[e]]

\* The registry after off(event, callback).
Off(evts, event, callback) ==
  IF event \notin DOMAIN evts THEN evts
  ELSE LET index == IndexOf(evts[event], callback)
       IN IF index # 0
          THEN [evts EXCEPT ![event] = Splice(@, index)]
          ELSE evts

\* The registry after callback has run for event.
Run(callback, evts, event) ==
  CASE callback.does = "offSelf" -> Off(evts, event, callback)
    [] callback.does = "off" -> Off(evts, event, callback.target)
    [] callback.does = "on" -> On(evts, event, callback.target)
    [] OTHER -> evts

\* forEach in which a throw ends the loop and leaves emit: the call is logged
\* as thrown and the callbacks after it are not invoked.
RECURSIVE ForEach_StopOnThrow(_, _, _, _, _, _)
ForEach_StopOnThrow(evts, event, k, len, id, log) ==
  IF k > len THEN [events |-> evts, invoked |-> log]
  ELSE IF k > Len(evts[event]) THEN ForEach_StopOnThrow(evts, event, k + 1, len, id, log)
  ELSE LET callback == evts[event][k]
       IN IF callback.does = "throw"
          THEN [events |-> evts,
                invoked |-> Append(log, [callback |-> callback, event |-> event,
                                         id |-> id, outcome |-> "thrown"])]
          ELSE ForEach_StopOnThrow(Run(callback, evts, event), event, k + 1, len, id,
                       Append(log, [callback |-> callback, event |-> event, id |-> id,
                                    outcome |-> "returned"]))

\* callbacks.forEach(callback => { try { callback(...args) } catch { log } })
\* from index k on, over the array the registry holds for event: forEach
\* visits the indices below the length the array had when it started (len)
\* and skips an index the array no longer has; every call is logged with its
\* outcome, a throw is caught and the loop goes on; a callback may change the
\* registry (and so the array being visited) before the next index is read.
RECURSIVE ForEach(_, _, _, _, _, _)
ForEach(evts, event, k, len, id, log) ==
  IF k > len THEN [events |-> evts, invoked |-> log]
  ELSE IF k > Len(evts[event]) THEN ForEach(evts, event, k + 1, len, id, log)
  ELSE LET callback == evts[event][k]
       IN ForEach(Run(callback, evts, event), event, k + 1, len, id,
                  Append(log, [callback |-> callback, event |-> event, id |-> id,
                               outcome |-> IF callback.does = "throw"
                                           THEN "caught" ELSE "returned"]))

\* The registry and the invocation log after emit(event, payload) on the
\* registry evts.
Dispatch(evts, event, id, log) ==
  IF event \notin DOMAIN evts THEN [events |-> evts, invoked |-> log]
  ELSE ForEach(evts, event, 1, Len(evts[event]), id, log)

\* eventBus.on(event, callback)
on(event, callback) ==
  /\ TotalListeners(events) < MaxListeners
  /\ events' = On(events, event, callback)
  /\ UNCHANGED <<now, emitted, invoked, nodeVars, recvVars, sendVars, histVars, cursorVars, offsetVars, allVars>>

\* eventBus.off(event, callback)
off(event, callback) ==
  /\ events' = Off(events, event, callback)
  /\ UNCHANGED <<now, emitted, invoked, nodeVars, recvVars, sendVars, histVars, cursorVars, offsetVars, allVars>>

\* eventBus.emit(event, payload), called by any component.
emit(event, id) ==
  /\ Len(emitted) < MaxEmits
  /\ emitted' = Emit(emitted, event, id)
  /\ invoked' = Dispatch(events, event, id, invoked).invoked
  /\ events' = Dispatch(events, event, id, invoked).events
  /\ UNCHANGED <<now, nodeVars, recvVars, sendVars, histVars, cursorVars, offsetVars, allVars>>

\* -------------------------------------------------------- LightningReceive
Amounts == (0..MaxAmount) \cup {DefaultAmount}
Memos == {"", "test"}
NoCall == [op |-> "none"]

MemoOrDefault(m) == IF m = "" THEN "Lightning Payment" ELSE m

\* The addInvoice request built from the closure's amount and memo.
AddInvoiceRequest(a, m) ==
  [value_msat |-> NumberToString(a * MsatPerSat),
   memo |-> MemoOrDefault(m),
   expiry |-> NumberToString(3600)]

\* Bug variant: the amount is stored without the satoshi-to-millisatoshi factor.
FormattedInvoice_NoFactor(hash, a, m, t) ==
  [payment_request |-> hash,
   payment_hash |-> hash,
   value_msat |-> NumberToString(a),
   timestamp |-> NumberToString(t),
   expiry |-> NumberToString(3600),
   memo |-> MemoOrDefault(m),
   settled |-> FALSE]

FormattedInvoice(hash, a, m, t) ==
  [payment_request |-> hash,
   payment_hash |-> hash,
   value_msat |-> NumberToString(a * MsatPerSat),
   timestamp |-> NumberToString(t),
   expiry |-> NumberToString(3600),
   memo |-> MemoOrDefault(m),
   settled |-> FALSE]

setAmount(a) ==
  /\ invoice = Null
  /\ amount' = a
  /\ UNCHANGED <<sendVars, histVars, cursorVars, offsetVars, allVars, now, busVars, nodeVars, memo, invoice, rLoading, rError, recvCall>>

setMemo(m) ==
  /\ invoice = Null
  /\ memo' = m
  /\ UNCHANGED <<sendVars, histVars, cursorVars, offsetVars, allVars, now, busVars, nodeVars, amount, invoice, rLoading, rError, recvCall>>

\* createInvoice up to the await of lnd.addInvoice.
createInvoice ==
  /\ invoice = Null
  /\ ~(rLoading \/ amount <= 0)
  /\ Len(nodeInvoices) < MaxInvoices
  /\ rLoading' = TRUE
  /\ rError' = Null
  /\ recvCall' = [op |-> "create", amount |-> amount, memo |-> memo,
                  request |-> AddInvoiceRequest(amount, memo)]
  /\ UNCHANGED <<sendVars, histVars, cursorVars, offsetVars, allVars, now, busVars, nodeVars, amount, memo, invoice>>

\* lnd.addInvoice resolved: the node created an invoice with a fresh r_hash.
createInvoiceResolved ==
  /\ recvCall.op = "create"
  /\ LET hash == Len(nodeInvoices) + 1
         formattedInvoice ==
           FormattedInvoice(hash, recvCall.amount, recvCall.memo, now)
     IN /\ nodeInvoices' = Append(nodeInvoices, hash)
        /\ invoice' = formattedInvoice
        /\ emitted' = Emit(emitted, "invoice:created", hash)
        /\ invoked' = Dispatch(events, "invoice:created", hash, invoked).invoked
        /\ events' = Dispatch(events, "invoice:created", hash, invoked).events
  /\ rLoading' = FALSE
  /\ recvCall' = NoCall
  /\ UNCHANGED <<sendVars, histVars, cursorVars, offsetVars, allVars, now, nodeSettled, amount, memo, rError>>

createInvoiceRejected ==
  /\ recvCall.op = "create"
  /\ rError' = Err(<<"Failed to create invoice. Please check your node connection.">>)
  /\ rLoading' = FALSE
  /\ recvCall' = NoCall
  /\ UNCHANGED <<sendVars, histVars, cursorVars, offsetVars, allVars, now, busVars, nodeVars, amount, memo, invoice>>

\* The "New Invoice" button: setInvoice(null).
newInvoice ==
  /\ invoice # Null
  /\ invoice' = Null
  /\ UNCHANGED <<sendVars, histVars, cursorVars, offsetVars, allVars, now, busVars, nodeVars, amount, memo, rLoading, rError, recvCall>>

\* checkInvoiceStatus up to the await of lnd.lookupInvoiceV2.
checkInvoiceStatus ==
  /\ invoice # Null
  /\ ~rLoading
  /\ rLoading' = TRUE
  /\ recvCall' = [op |-> "check", invoice |-> invoice]
  /\ UNCHANGED <<sendVars, histVars, cursorVars, offsetVars, allVars, now, busVars, nodeVars, amount, memo, invoice, rError>>

\* Bug variant: every check that sees a settled invoice notifies.
JustPaid_EverySettled(wasSettledBefore, isSettledNow) == isSettledNow

\* Whether the resolved check emits 'transaction:new'.
JustPaid(wasSettledBefore, isSettledNow) == ~wasSettledBefore /\ isSettledNow

\* lnd.lookupInvoiceV2 resolved with the node's view of the invoice.
checkInvoiceStatusResolved ==
  /\ recvCall.op = "check"
  /\ LET wasSettledBefore == recvCall.invoice.settled
         isSettledNow == recvCall.invoice.payment_hash \in nodeSettled
         updatedInvoiceState == [recvCall.invoice EXCEPT !.settled = isSettledNow]
     IN /\ invoice' = updatedInvoiceState
        /\ emitted' = IF JustPaid(wasSettledBefore, isSettledNow)
                      THEN Emit(emitted, "transaction:new",
                                updatedInvoiceState.payment_hash)
                      ELSE emitted
        /\ invoked' = IF JustPaid(wasSettledBefore, isSettledNow)
                      THEN Dispatch(events, "transaction:new",
                                    updatedInvoiceState.payment_hash, invoked).invoked
                      ELSE invoked
        /\ events' = IF JustPaid(wasSettledBefore, isSettledNow)
                     THEN Dispatch(events, "transaction:new",
                                   updatedInvoiceState.payment_hash, invoked).events
                     ELSE events
  /\ rLoading' = FALSE
  /\ recvCall' = NoCall
  /\ UNCHANGED <<sendVars, histVars, cursorVars, offsetVars, allVars, now, nodeVars, amount, memo, rError>>

checkInvoiceStatusRejected ==
  /\ recvCall.op = "check"
  /\ rError' = Err(<<"Failed to check payment status.">>)
  /\ rLoading' = FALSE
  /\ recvCall' = NoCall
  /\ UNCHANGED <<sendVars, histVars, cursorVars, offsetVars, allVars, now, busVars, nodeVars, amount, memo, invoice>>

\* Environment: a payer settles an invoice of the node; settlement is final.
nodeSettleInvoice(h) ==
  /\ h \notin nodeSettled
  /\ nodeSettled' = nodeSettled \cup {h}
  /\ UNCHANGED <<sendVars, histVars, cursorVars, offsetVars, allVars, now, busVars, nodeInvoices, recvVars>>

\* ----------------------------------------------------------- LightningSend
PaymentRequests == {"", " ", "lnbc1"}

\* paymentRequest.trim() === ''
TrimIsEmpty(str) == str \in {"", " "}

Statuses == {"SUCCEEDED", "FAILED", "IN_FLIGHT", "UNKNOWN"}

\* failure_reason; "" stands for an absent or empty reason (both falsy).
FailureReasons(status) ==
  IF status = "FAILED" THEN {"", "FAILURE_REASON_NO_ROUTE"} ELSE {""}

\* The values JSON.parse can give for one line: an object with a result, an
\* object without one, or null.
PaymentResults ==
  {[result |-> [status |-> st, failure_reason |-> fr]] :
     st \in Statuses, fr \in {"", "FAILURE_REASON_NO_ROUTE"}}

WithResult ==
  {pr \in PaymentResults : pr.result.failure_reason \in FailureReasons(pr.result.status)}

\* One line of a newline-delimited response: blank (empty or whitespace),
\* text that JSON.parse rejects, or JSON text with its parsed value.
JsonLines ==
  {[t |-> "blank"], [t |-> "garbage"]}
    \cup {[t |-> "json", value |-> v] : v \in WithResult \cup {Null, [noresult |-> TRUE]}}

RECURSIVE SeqsUpTo(_, _)
SeqsUpTo(S, n) ==
  IF n = 0 THEN {<<>>}
  ELSE LET shorter == SeqsUpTo(S, n - 1)
       IN shorter \cup {Append(q, x) : q \in {r \in shorter : Len(r) = n - 1}, x \in S}

\* What sendPaymentV2 can resolve with.
Responses ==
  {[kind |-> "object", value |-> v] : v \in WithResult \cup {[noresult |-> TRUE]}}
    \cup {[kind |-> "string", lines |-> ls] : ls \in SeqsUpTo(JsonLines, MaxLines)}
    \cup {[kind |-> "other"], [kind |-> "undefined"]}

EmptyString == [kind |-> "empty"]

\* JSON.stringify(result): undefined for undefined, JSON text otherwise.
JsonStringify(result) ==
  IF result.kind = "undefined" THEN [kind |-> "undefined"] ELSE [json |-> result]

\* !rawResponse
IsFalsy(raw) == raw = EmptyString \/ raw = [kind |-> "undefined"]

\* JSON.parse of the text JsonStringify produced.
JsonParse(raw) == raw.json

\* responseData.split('\n').filter(s => s.trim() !== '')
RECURSIVE FilterNonBlank(_)
FilterNonBlank(lines) ==
  IF lines = <<>> THEN <<>>
  ELSE IF lines[1].t = "blank" THEN FilterNonBlank(Tail(lines))
       ELSE <<lines[1]>> \o FilterNonBlank(Tail(lines))

\* Bug variant: the first state of the stream is taken.
LastJsonString_First(jsonStrings) == jsonStrings[1]

\* jsonStrings[jsonStrings.length - 1]
LastJsonString(jsonStrings) == jsonStrings[Len(jsonStrings)]

\* Bug variant: a failed payment leaves the spinner on.
handlePaymentUpdate_KeepLoading(paymentData, st) ==
  LET result == paymentData.result
  IN CASE result.status = "SUCCEEDED" ->
            [paymentResult |-> paymentData, loading |-> FALSE, error |-> Null]
       [] result.status = "FAILED" ->
            [paymentResult |-> paymentData, loading |-> st.loading,
             error |-> Err(<<"Payment failed: ",
                             IF result.failure_reason = "" THEN "Unknown error"
                             ELSE result.failure_reason>>)]
       [] result.status = "IN_FLIGHT" ->
            [paymentResult |-> paymentData, loading |-> st.loading, error |-> st.error]
       [] OTHER ->
            [paymentResult |-> paymentData, loading |-> FALSE,
             error |-> Err(<<"Unknown payment status: ", result.status>>)]

\* Bug variant: an in-flight state stops the spinner like a final one.
handlePaymentUpdate_InFlightStops(paymentData, st) ==
  LET result == paymentData.result
  IN CASE result.status = "SUCCEEDED" ->
            [paymentResult |-> paymentData, loading |-> FALSE, error |-> Null]
       [] result.status = "FAILED" ->
            [paymentResult |-> paymentData, loading |-> FALSE,
             error |-> Err(<<"Payment failed: ",
                             IF result.failure_reason = "" THEN "Unknown error"
                             ELSE result.failure_reason>>)]
       [] result.status = "IN_FLIGHT" ->
            [paymentResult |-> paymentData, loading |-> FALSE, error |-> st.error]
       [] OTHER ->
            [paymentResult |-> paymentData, loading |-> FALSE,
             error |-> Err(<<"Unknown payment status: ", result.status>>)]

\* handlePaymentUpdate on the state st = [paymentResult, loading, error];
\* paymentData always has a truthy result here (both callers check it).
handlePaymentUpdate(paymentData, st) ==
  LET result == paymentData.result
  IN CASE result.status = "SUCCEEDED" ->
            [paymentResult |-> paymentData, loading |-> FALSE, error |-> Null]
       [] result.status = "FAILED" ->
            [paymentResult |-> paymentData, loading |-> FALSE,
             error |-> Err(<<"Payment failed: ",
                             IF result.failure_reason = "" THEN "Unknown error"
                             ELSE result.failure_reason>>)]
       [] result.status = "IN_FLIGHT" ->
            [paymentResult |-> paymentData, loading |-> st.loading, error |-> st.error]
       [] OTHER ->
            [paymentResult |-> paymentData, loading |-> FALSE,
             error |-> Err(<<"Unknown payment status: ", result.status>>)]

HasResult(v) == "result" \in DOMAIN v

\* Bug variant: a reported parse problem leaves the spinner on.
SetError_KeepLoading(st, text) == [st EXCEPT !.error = Err(<<text>>)]

SetError(st, text) == [st EXCEPT !.loading = FALSE, !.error = Err(<<text>>)]

\* processPaymentResponse(rawResponse) on the state st.
processPaymentResponse(raw, st) ==
  LET responseData == JsonParse(raw)
  IN IF responseData.kind = "object" /\ HasResult(responseData.value)
     THEN handlePaymentUpdate(responseData.value, st)
     ELSE IF responseData.kind = "string"
     THEN LET jsonStrings == FilterNonBlank(responseData.lines)
          IN IF Len(jsonStrings) = 0
             THEN SetError(st, "No valid payment response found")
             ELSE LET lastJsonString == LastJsonString(jsonStrings)
                  IN IF lastJsonString.t = "garbage"
                     THEN SetError(st, "Unable to parse payment response")
                     ELSE IF ~HasResult(lastJsonString.value)
                     THEN SetError(st, "Invalid payment response format")
                     ELSE handlePaymentUpdate(lastJsonString.value, st)
     ELSE SetError(st, "Unrecognized payment response format")

\* renderUI: the form is shown, not the result card.
ShowsPaymentForm ==
  IF paymentResult = Null THEN TRUE
  ELSE sLoading /\ paymentResult.result.status = "IN_FLIGHT"

setPaymentRequest(v) ==
  /\ ShowsPaymentForm
  /\ ~sLoading
  /\ paymentRequest' = v
  /\ UNCHANGED <<now, busVars, nodeVars, recvVars, histVars, cursorVars, offsetVars, allVars,
                 paymentResult, sLoading, sError, rawResponse, sendCall>>

\* sendPayment with an invoice that is empty after trim.
sendPaymentBlank ==
  /\ ShowsPaymentForm
  /\ ~(sLoading \/ paymentRequest = "")
  /\ TrimIsEmpty(paymentRequest)
  /\ sError' = Err(<<"Please enter a valid lightning invoice">>)
  /\ UNCHANGED <<now, busVars, nodeVars, recvVars, histVars, cursorVars, offsetVars, allVars,
                 paymentRequest, paymentResult, sLoading, rawResponse, sendCall>>

\* sendPayment behind a button that is not disabled while loading.
sendPayment_NotDisabled ==
  /\ ShowsPaymentForm
  /\ paymentRequest # ""
  /\ ~TrimIsEmpty(paymentRequest)
  /\ sLoading' = TRUE
  /\ sError' = Null
  /\ paymentResult' = Null
  /\ rawResponse' = EmptyString
  /\ sendCall' = [op |-> "send", payment_request |-> paymentRequest]
  /\ UNCHANGED <<now, busVars, nodeVars, recvVars, histVars, cursorVars, offsetVars, allVars, paymentRequest>>

\* sendPayment up to the await of lnd.sendPaymentV2.
sendPayment ==
  /\ ShowsPaymentForm
  /\ ~(sLoading \/ paymentRequest = "")
  /\ ~TrimIsEmpty(paymentRequest)
  /\ sLoading' = TRUE
  /\ sError' = Null
  /\ paymentResult' = Null
  /\ rawResponse' = EmptyString
  /\ sendCall' = [op |-> "send", payment_request |-> paymentRequest]
  /\ UNCHANGED <<now, busVars, nodeVars, recvVars, histVars, cursorVars, offsetVars, allVars, paymentRequest>>

\* sendPaymentV2 resolved: setRawResponse(JSON.stringify(result)), then the
\* effect on rawResponse runs processPaymentResponse unless it is falsy.
sendPaymentResolved(result) ==
  /\ sendCall.op = "send"
  /\ LET raw == JsonStringify(result)
         st == [paymentResult |-> paymentResult, loading |-> sLoading,
                error |-> sError]
         after == IF IsFalsy(raw) THEN st ELSE processPaymentResponse(raw, st)
     IN /\ rawResponse' = raw
        /\ paymentResult' = after.paymentResult
        /\ sLoading' = after.loading
        /\ sError' = after.error
  /\ sendCall' = NoCall
  /\ UNCHANGED <<now, busVars, nodeVars, recvVars, histVars, cursorVars, offsetVars, allVars, paymentRequest>>

sendPaymentRejected ==
  /\ sendCall.op = "send"
  /\ sError' = Err(<<"Failed to send payment. Please check your invoice and node connection.">>)
  /\ sLoading' = FALSE
  /\ sendCall' = NoCall
  /\ UNCHANGED <<now, busVars, nodeVars, recvVars, histVars, cursorVars, offsetVars, allVars,
                 paymentRequest, paymentResult, rawResponse>>

\* The "New Payment" button of the result card.
reset ==
  /\ ~ShowsPaymentForm
  /\ paymentRequest' = ""
  /\ paymentResult' = Null
  /\ sError' = Null
  /\ rawResponse' = EmptyString
  /\ UNCHANGED <<now, busVars, nodeVars, recvVars, histVars, cursorVars, offsetVars, allVars, sLoading, sendCall>>

InitSend ==
  /\ paymentRequest = ""
  /\ paymentResult = Null
  /\ sLoading = FALSE
  /\ sError = Null
  /\ rawResponse = EmptyString
  /\ sendCall = NoCall

NextSend ==
  \/ \E v \in PaymentRequests : setPaymentRequest(v)
  \/ sendPaymentBlank
  \/ sendPayment
  \/ \E result \in Responses : sendPaymentResolved(result)
  \/ sendPaymentRejected
  \/ reset

\* ------------------------------------------------------ TransactionHistory
\* JavaScript numbers that may be fractional are exact rationals in lowest
\* terms; 1500 / 1000 is [num |-> 3, den |-> 2].
RECURSIVE GCD(_, _)
GCD(a, b) == IF b = 0 THEN a ELSE GCD(b, a % b)

Divide(n, d) ==
  LET g == GCD(n, d) IN [num |-> n \div g, den |-> d \div g]

Whole(n) == [num |-> n, den |-> 1]

\* mSatsToSats: Number(mSats) / 1000, a floating-point division.
mSatsToSats(mSats) == Divide(ParseNumber(mSats), 1000)

\* Midnight of day 50; the sample instants and dates are placed around it.
T0 == 50 * DaySeconds

Str(n) == NumberToString(n)

\* Payments the node can list (value_msat, fee_msat and creation_date are
\* decimal strings).
PaymentPool ==
  {[payment_hash |-> "p1", value_msat |-> Str(1500), fee_msat |-> Str(1),
    creation_date |-> Str(T0 + 500), status |-> "SUCCEEDED"],
   [payment_hash |-> "p2", value_msat |-> Str(2000), fee_msat |-> Str(0),
    creation_date |-> Str(T0 + 1060 - 7 * DaySeconds), status |-> "FAILED"]}

\* Invoices the node can list; <<>> is an absent (or empty) optional string.
\* i1 and i2 both run out at T0 + 1060: i1 by the default expiry, i2 by its own.
InvoicePool ==
  {[r_hash |-> "i1", value_msat |-> Str(2500), value |-> Str(2), state |-> "OPEN",
    settle_date |-> Str(0), expiry |-> <<>>,
    creation_date |-> Str(T0 + 1060 - DefaultExpiry)],
   [r_hash |-> "i2", value_msat |-> <<>>, value |-> Str(7), state |-> "OPEN",
    settle_date |-> Str(0), expiry |-> Str(60), creation_date |-> Str(T0 + 1000)],
   [r_hash |-> "i3", value_msat |-> Str(3000), value |-> Str(3), state |-> "SETTLED",
    settle_date |-> Str(T0 + 900), expiry |-> Str(60), creation_date |-> Str(T0 + 800)],
   [r_hash |-> "i4", value_msat |-> <<>>, value |-> <<>>, state |-> "CANCELED",
    settle_date |-> Str(0), expiry |-> Str(60), creation_date |-> <<>>]}

\* listInvoices with pending_only returns invoices that are not final.
PendingPool == {inv \in InvoicePool : inv.state \in {"OPEN", "ACCEPTED"}}

\* The instants at which the clock is sampled: the expiry instant of i1 and
\* i2, and the second after it.
Instants == {T0 + 1060, T0 + 1061}

Truthy(str) == str # <<>>

\* The sent transaction built from one payment (lines 156-169); dates are
\* kept in seconds.
SentTransaction(payment) ==
  [id |-> payment.payment_hash,
   type |-> "sent",
   amount |-> mSatsToSats(payment.value_msat),
   fee |-> mSatsToSats(payment.fee_msat),
   date |-> ParseNumber(payment.creation_date),
   status |-> payment.status,
   rawData |-> payment]

\* Bug variant: an invoice is expired from the instant of its expiry on, and
\* whatever its state.
IsExpired_AnyState(status, currentTime, expiryTimestamp) ==
  currentTime >= expiryTimestamp

IsExpired(status, currentTime, expiryTimestamp) ==
  status = "OPEN" /\ currentTime > expiryTimestamp

\* processInvoices, for one invoice.
ReceivedTransaction(inv, currentTime) ==
  LET creationDate ==
        ParseNumber(IF Truthy(inv.creation_date) THEN inv.creation_date ELSE Str(0))
      date == IF inv.state = "SETTLED" /\ Truthy(inv.settle_date)
              THEN ParseNumber(inv.settle_date) ELSE creationDate
      amt == IF Truthy(inv.value_msat) THEN mSatsToSats(inv.value_msat)
             ELSE IF Truthy(inv.value) THEN Whole(ParseNumber(inv.value))
             ELSE Whole(0)
      status == IF inv.state # "" THEN inv.state ELSE "UNKNOWN"
      expirySeconds == IF Truthy(inv.expiry) THEN ParseNumber(inv.expiry)
                       ELSE DefaultExpiry
      expiryTimestamp == creationDate + expirySeconds
  IN [id |-> inv.r_hash,
      type |-> "received",
      amount |-> amt,
      date |-> date,
      status |-> status,
      isExpired |-> IsExpired(status, currentTime, expiryTimestamp),
      expiryDate |-> expiryTimestamp,
      rawData |-> inv]

processInvoices(invoices, currentTime) ==
  [i \in 1..Len(invoices) |-> ReceivedTransaction(invoices[i], currentTime)]

\* Array.prototype.sort with (a, b) => b.date - a.date: stable, newest first.
RECURSIVE InsertByDate(_, _)
InsertByDate(sorted, tx) ==
  IF sorted = <<>> THEN <<tx>>
  ELSE IF sorted[1].date >= tx.date
       THEN <<sorted[1]>> \o InsertByDate(Tail(sorted), tx)
       ELSE <<tx>> \o sorted

\* Bug variant: the combined list is left in the order the node listed it.
SortByDateDesc_AsListed(txs) == txs

RECURSIVE SortByDateDesc(_)
SortByDateDesc(txs) ==
  IF txs = <<>> THEN <<>>
  ELSE InsertByDate(SortByDateDesc(SubSeq(txs, 1, Len(txs) - 1)), txs[Len(txs)])

\* The list loadTransactions builds from the three node responses.
AllTransactions(payments, settledInvoices, pendingInvoices, currentTime) ==
  LET sentPayments == [i \in 1..Len(payments) |-> SentTransaction(payments[i])]
      combinedInvoices == settledInvoices \o pendingInvoices
      receivedPayments == processInvoices(combinedInvoices, currentTime)
  IN SortByDateDesc(sentPayments \o receivedPayments)

\* Array.prototype.filter
Filter(seq, Keep(_)) == SelectSeq(seq, Keep)

\* The start of the selected time range ('month' is the "Last 30 Days" option).
StartDate(timeRange, t) ==
  CASE timeRange = "today" -> t - (t % DaySeconds)
    [] timeRange = "week" -> t - 7 * DaySeconds
    [] timeRange = "month" -> t - 30 * DaySeconds
    [] OTHER -> t

\* Bug variant: the type filter keeps the types that were not selected.
FilterByType_Inverted(txList, f) ==
  IF "all" \notin f.type
  THEN LET Keep(tx) == tx.type \notin f.type IN Filter(txList, Keep)
  ELSE txList

FilterByType(txList, f) ==
  IF "all" \notin f.type
  THEN LET Keep(tx) == tx.type \in f.type IN Filter(txList, Keep)
  ELSE txList

FilterByStatus(txList, f) ==
  IF "all" \notin f.status
  THEN LET Keep(tx) == tx.status \in f.status IN Filter(txList, Keep)
  ELSE txList

FilterByTime(txList, f, t) ==
  IF f.timeRange # "all"
  THEN LET Keep(tx) == tx.date >= StartDate(f.timeRange, t) IN Filter(txList, Keep)
  ELSE txList

CeilDiv(n, d) == (n + d - 1) \div d

\* applyFilters(txList) under the filters f of the calling closure, at time t:
\* the values it sets filteredTransactions, totalPages and currentPage to.
applyFilters(txList, f, t) ==
  LET filtered == FilterByTime(FilterByStatus(FilterByType(txList, f), f), f, t)
      calculatedTotalPages == CeilDiv(Len(filtered), PageSize)
  IN [filteredTransactions |-> filtered,
      totalPages |-> IF calculatedTotalPages > 0 THEN calculatedTotalPages ELSE 1,
      currentPage |-> 1]

TypeValues == {"all", "sent", "received"}
StatusValues == {"all", "OPEN"}
TimeRanges == {"all", "week"}

\* The listeners the mount effect registers with lndClient.on before a
\* subscription call throws; each closes over loadTransactions of the render
\* the effect belongs to, and so over that render's client.
Listeners(invoiceSub, paymentSub, renderClient) ==
  IF invoiceSub = "throw" THEN {}
  ELSE IF paymentSub = "throw" THEN {[event |-> "invoice", client |-> renderClient]}
  ELSE {[event |-> "invoice", client |-> renderClient],
        [event |-> "paymentUpdate", client |-> renderClient]}

\* Bug variant: a subscription that cannot be opened is reported as a
\* connection failure.
mount_SubscriptionFatal(newClient, invoiceSub, paymentSub) ==
  /\ hPhase = "initial"
  /\ hPhase' = "mounted"
  /\ IF newClient = "throw"
     THEN /\ hError' = Err(<<"Failed to connect to Lightning Network. Please check your connection.">>)
          /\ UNCHANGED <<client, openConnections, cleanup, loadCall, handlers>>
     ELSE /\ client' = [baseUrl |-> "NEXT_PUBLIC_LND_REST_API_URL"]
          /\ openConnections' =
               IF invoiceSub = "throw" THEN {}
               ELSE IF paymentSub = "throw" THEN {"invoices"}
               ELSE {"invoices", "payments"}
          /\ cleanup' =
               IF invoiceSub = "ok" /\ paymentSub = "ok"
               THEN [closes |-> {"invoices", "payments"}]
               ELSE Null
          /\ handlers' = Listeners(invoiceSub, paymentSub, client)
          /\ loadCall' = [op |-> "load", filters |-> filters]
          /\ hError' =
               IF invoiceSub = "ok" /\ paymentSub = "ok" THEN Null
               ELSE Err(<<"Failed to connect to Lightning Network. Please check your connection.">>)
  /\ UNCHANGED <<now, busVars, nodeVars, recvVars, sendVars, cursorVars, offsetVars, allVars, delivered, transactions,
                 filteredTransactions, hLoading, currentPage, totalPages, filters,
                 lastUpdated, filterChanges>>

\* The mount effect (lines 50-101) followed by the effect on client (lines
\* 369-373).  newClient, invoiceSub and paymentSub say whether new LndClient,
\* subscribeInvoices and trackPaymentV2 return ("ok") or throw ("throw").
mount(newClient, invoiceSub, paymentSub) ==
  /\ hPhase = "initial"
  /\ hPhase' = "mounted"
  /\ IF newClient = "throw"
     THEN /\ hError' = Err(<<"Failed to connect to Lightning Network. Please check your connection.">>)
          /\ UNCHANGED <<client, openConnections, cleanup, loadCall, handlers>>
     ELSE /\ client' = [baseUrl |-> "NEXT_PUBLIC_LND_REST_API_URL"]
          /\ openConnections' =
               IF invoiceSub = "throw" THEN {}
               ELSE IF paymentSub = "throw" THEN {"invoices"}
               ELSE {"invoices", "payments"}
          /\ cleanup' =
               IF invoiceSub = "ok" /\ paymentSub = "ok"
               THEN [closes |-> {"invoices", "payments"}]
               ELSE Null
          /\ handlers' = Listeners(invoiceSub, paymentSub, client)
          /\ loadCall' = [op |-> "load", filters |-> filters]
          /\ hError' = Null
  /\ UNCHANGED <<now, busVars, nodeVars, recvVars, sendVars, cursorVars, offsetVars, allVars, delivered, transactions,
                 filteredTransactions, hLoading, currentPage, totalPages, filters,
                 lastUpdated, filterChanges>>

\* React runs the mount effect's cleanup, if it returned one.
unmount ==
  /\ hPhase = "mounted"
  /\ hPhase' = "unmounted"
  /\ openConnections' =
       IF cleanup = Null THEN openConnections ELSE openConnections \ cleanup.closes
  /\ UNCHANGED <<now, busVars, nodeVars, recvVars, sendVars, cursorVars, offsetVars, allVars, delivered, handlers, client, transactions,
                 filteredTransactions, hLoading, hError, currentPage, totalPages,
                 filters, lastUpdated, cleanup, loadCall, filterChanges>>

\* The Refresh button: loadTransactions up to its first await.
loadTransactions ==
  /\ hPhase = "mounted"
  /\ ~hLoading
  /\ client # Null
  /\ hLoading' = TRUE
  /\ hError' = Null
  /\ loadCall' = [op |-> "load", filters |-> filters]
  /\ UNCHANGED <<now, busVars, nodeVars, recvVars, sendVars, cursorVars, offsetVars, allVars, delivered, handlers, hPhase, client,
                 transactions, filteredTransactions, currentPage, totalPages,
                 filters, lastUpdated, openConnections, cleanup, filterChanges>>

\* listPayments and both listInvoices calls resolved.
loadTransactionsResolved(payments, settledInvoices, pendingInvoices) ==
  /\ hPhase = "mounted"
  /\ loadCall.op = "load"
  /\ LET allTransactions ==
           AllTransactions(payments, settledInvoices, pendingInvoices, now)
         applied == applyFilters(allTransactions, loadCall.filters, now)
     IN /\ transactions' = allTransactions
        /\ filteredTransactions' = applied.filteredTransactions
        /\ totalPages' = applied.totalPages
        /\ currentPage' = applied.currentPage
  /\ lastUpdated' = [time |-> now]
  /\ hLoading' = FALSE
  /\ loadCall' = NoCall
  /\ filterChanges' = 0
  /\ UNCHANGED <<now, busVars, nodeVars, recvVars, sendVars, cursorVars, offsetVars, allVars, delivered, handlers, hPhase, client,
                 hError, filters, openConnections, cleanup>>

\* Bug variant: a rejected load also drops the list it had.
loadTransactionsRejected_DropsList ==
  /\ hPhase = "mounted"
  /\ loadCall.op = "load"
  /\ hError' = Err(<<"Failed to load transaction history. Please try again later.">>)
  /\ hLoading' = FALSE
  /\ loadCall' = NoCall
  /\ filterChanges' = 0
  /\ transactions' = <<>>
  /\ filteredTransactions' = <<>>
  /\ UNCHANGED <<now, busVars, nodeVars, recvVars, sendVars, cursorVars, offsetVars, allVars, delivered, handlers, hPhase, client,
                 currentPage, totalPages,
                 filters, lastUpdated, openConnections, cleanup>>

loadTransactionsRejected ==
  /\ hPhase = "mounted"
  /\ loadCall.op = "load"
  /\ hError' = Err(<<"Failed to load transaction history. Please try again later.">>)
  /\ hLoading' = FALSE
  /\ loadCall' = NoCall
  /\ filterChanges' = 0
  /\ UNCHANGED <<now, busVars, nodeVars, recvVars, sendVars, cursorVars, offsetVars, allVars, delivered, handlers, hPhase, client,
                 transactions, filteredTransactions, currentPage, totalPages,
                 filters, lastUpdated, openConnections, cleanup>>

\* updateFilter: applyFilters runs with the closure's old filters, then the
\* effect on filters re-applies the new ones when the list is not empty.
updateFilter(filterType, value) ==
  /\ hPhase = "mounted"
  /\ IF loadCall.op = "load"
     THEN filterChanges < MaxChangesInFlight /\ filterChanges' = filterChanges + 1
     ELSE filterChanges' = filterChanges
  /\ LET newFilters == [filters EXCEPT ![filterType] = value]
         applied == IF Len(transactions) > 0
                    THEN applyFilters(transactions, newFilters, now)
                    ELSE applyFilters(transactions, filters, now)
     IN /\ filters' = newFilters
        /\ filteredTransactions' = applied.filteredTransactions
        /\ totalPages' = applied.totalPages
        /\ currentPage' = applied.currentPage
  /\ UNCHANGED <<now, busVars, nodeVars, recvVars, sendVars, cursorVars, offsetVars, allVars, delivered, handlers, hPhase, client,
                 transactions, hLoading, hError, lastUpdated, openConnections,
                 cleanup, loadCall>>

\* toggleFilterValue without the removal of "all".
ToggledValues_KeepAll(currentValues, value) ==
  IF value = "all" THEN {"all"}
  ELSE IF value \in currentValues
       THEN (IF currentValues \ {value} = {} THEN {"all"} ELSE currentValues \ {value})
       ELSE currentValues \cup {value}

\* The value toggleFilterValue passes to updateFilter.
ToggledValues(currentValues, value) ==
  IF value = "all" THEN {"all"}
  ELSE LET newValues == currentValues \ {"all"}
       IN IF value \in newValues
          THEN (IF newValues \ {value} = {} THEN {"all"} ELSE newValues \ {value})
          ELSE newValues \cup {value}

toggleFilterValue(filterType, value) ==
  updateFilter(filterType, ToggledValues(filters[filterType], value))

\* getPaginatedTransactions: filteredTransactions.slice(startIndex, endIndex).
getPaginatedTransactions ==
  LET startIndex == (currentPage - 1) * PageSize
      endIndex == startIndex + PageSize
      last == IF endIndex < Len(filteredTransactions) THEN endIndex
              ELSE Len(filteredTransactions)
  IN SubSeq(filteredTransactions, startIndex + 1, last)

handlePageChange(page) ==
  /\ hPhase = "mounted"
  /\ ~(page < 1 \/ page > totalPages)
  /\ currentPage' = page
  /\ UNCHANGED <<now, busVars, nodeVars, recvVars, sendVars, cursorVars, offsetVars, allVars, delivered, handlers, hPhase, client,
                 transactions, filteredTransactions, hLoading, hError, totalPages,
                 filters, lastUpdated, openConnections, cleanup, loadCall,
                 filterChanges>>

\* The push events of the two streams.
PushEvents ==
  {[event |-> "invoice", status |-> ""]}
    \cup {[event |-> "paymentUpdate", status |-> st] :
            st \in {"SUCCEEDED", "FAILED", "IN_FLIGHT"}}

Connection(event) == IF event = "invoice" THEN "invoices" ELSE "payments"

\* Whether the listener for ev calls loadTransactions (lines 66-69, 75-80).
Reloads(ev) ==
  ev.event = "invoice" \/ ev.status = "SUCCEEDED" \/ ev.status = "FAILED"

\* The node client delivers ev on an open stream to the registered listener,
\* which runs the loadTransactions of its closure up to the first await:
\* that function returns at once when the closure's client is null.
pushEvent(ev) ==
  /\ Len(delivered) < MaxPushEvents
  /\ Connection(ev.event) \in openConnections
  /\ delivered' = Append(delivered, ev)
  /\ \E h \in handlers :
       /\ h.event = ev.event
       /\ IF Reloads(ev) /\ h.client # Null
          THEN /\ hLoading' = TRUE
               /\ hError' = Null
               /\ loadCall' = [op |-> "load", filters |-> filters]
          ELSE UNCHANGED <<hLoading, hError, loadCall>>
  /\ UNCHANGED <<now, busVars, nodeVars, recvVars, sendVars, cursorVars, offsetVars, allVars, hPhase, client,
                 transactions, filteredTransactions, currentPage, totalPages,
                 filters, lastUpdated, openConnections, cleanup, filterChanges,
                 handlers>>

\* Time passes.
tick(t) ==
  /\ t > now
  /\ now' = t
  /\ UNCHANGED <<busVars, nodeVars, recvVars, sendVars, histVars, cursorVars, offsetVars, allVars>>

InitHistory ==
  /\ hPhase = "initial"
  /\ client = Null
  /\ transactions = <<>>
  /\ filteredTransactions = <<>>
  /\ hLoading = TRUE
  /\ hError = Null
  /\ currentPage = 1
  /\ totalPages = 1
  /\ filters = [type |-> {"all"}, status |-> {"all"}, timeRange |-> "all"]
  /\ lastUpdated = Null
  /\ openConnections = {}
  /\ cleanup = Null
  /\ loadCall = NoCall
  /\ filterChanges = 0
  /\ handlers = {}
  /\ delivered = <<>>

\* The node's answers to listPayments, listInvoices and listInvoices with
\* pending_only.
PaymentLists == SeqsUpTo(PaymentPool, MaxList)
InvoiceLists == SeqsUpTo(InvoicePool, MaxList)
PendingLists == SeqsUpTo(PendingPool, MaxList)

loadTransactionsResolvedAny ==
  \E ps \in PaymentLists, si \in InvoiceLists, pi \in PendingLists :
    loadTransactionsResolved(ps, si, pi)

mountAny ==
  \E c \in {"ok", "throw"}, i \in {"ok", "throw"}, p \in {"ok", "throw"} :
    mount(c, i, p)

\* Life cycle and loading of the transaction history, with the clock running
\* and the filters left as they are.
NextHistory ==
  \/ mountAny
  \/ unmount
  \/ loadTransactions
  \/ loadTransactionsResolvedAny
  \/ loadTransactionsRejected
  \/ \E page \in {currentPage - 1, currentPage + 1} : handlePageChange(page)
  \/ \E ev \in PushEvents : pushEvent(ev)
  \/ \E t \in Instants : tick(t)

\* Loading, filtering and paging of the mounted transaction history, at one
\* instant per behaviour.
NextFilters ==
  \/ mountAny
  \/ loadTransactions
  \/ loadTransactionsResolvedAny
  \/ loadTransactionsRejected
  \/ \E v \in TypeValues : toggleFilterValue("type", v)
  \/ \E v \in StatusValues : toggleFilterValue("status", v)
  \/ \E v \in TimeRanges : updateFilter("timeRange", v)
  \/ \E page \in {currentPage - 1, currentPage + 1} : handlePageChange(page)

\* ------------------------------ TransactionHistory, cursor-paginated variant
Undefined == [undefined |-> TRUE]

\* v || undefined, v ?? undefined
OrUndefined(v) == IF v = Null THEN Undefined ELSE v

\* The page sizes offered by the select.
PageSizes == {5, DefaultLimit}

NoFilters == [types |-> Null, statuses |-> Null, startDate |-> Null, endDate |-> Null]

\* The values the filter controls pass to handleFilterChange: null or a
\* one-element array, null or a date (the number of its day).
FilterValues(filterType) ==
  CASE filterType = "types" -> {Null, [array |-> <<"sent">>]}
    [] filterType = "statuses" -> {Null, [array |-> <<"failed">>]}
    [] filterType = "startDate" -> {Null, [day |-> 50]}
    [] filterType = "endDate" -> {Null, [day |-> 51]}

\* Math.floor(new Date(d).getTime() / 1000).toString(), or undefined.
DateToSeconds(d) ==
  IF d = Null THEN Undefined ELSE [string |-> NumberToString(d.day * DaySeconds)]

\* buildRequestOptions(isReset), reading filtersRef.current and
\* paginationRef.current.
buildRequestOptions(isReset, currentFilters, currentPagination) ==
  [offset |-> IF isReset THEN 0 ELSE currentPagination.offset,
   limit |-> currentPagination.limit,
   payment_cursor |-> IF isReset THEN Undefined ELSE currentPagination.payment_cursor,
   invoice_cursor |-> IF isReset THEN Undefined ELSE currentPagination.invoice_cursor,
   types |-> OrUndefined(currentFilters.types),
   statuses |-> OrUndefined(currentFilters.statuses),
   creation_date_start |-> DateToSeconds(currentFilters.startDate),
   creation_date_end |-> DateToSeconds(currentFilters.endDate)]

\* fetchTransactions(resetPagination) up to the await, followed by the
\* re-render whose effect copies pagination into paginationRef. The awaited
\* call is recorded with the order of issue (its place in cCalls) and a note,
\* superseded, that a reset fetch issued after it has replaced the list.
fetchTransactions(resetPagination) ==
  /\ Len(cCalls) < MaxPending
  /\ cLoading' = TRUE
  /\ cError' = Null
  /\ pagination' = IF resetPagination
                   THEN [offset |-> 0, limit |-> pagination.limit,
                         payment_cursor |-> Undefined, invoice_cursor |-> Undefined]
                   ELSE pagination
  /\ cCalls' = Append(cCalls,
                      [reset |-> resetPagination,
                       superseded |-> FALSE,
                       options |-> buildRequestOptions(resetPagination, filtersRef,
                                                       paginationRef)])
  /\ paginationRef' = pagination'

\* The effect of the first render: fetchTransactions(true).
mountCursor ==
  /\ cPhase = "initial"
  /\ cPhase' = "mounted"
  /\ fetchTransactions(TRUE)
  /\ UNCHANGED <<now, busVars, nodeVars, recvVars, sendVars, histVars, offsetVars, allVars,
                 transactionData, cFilters, filtersRef, cTimers>>

\* handleFilterChange, and the effect that copies filters into filtersRef.
handleFilterChange(filterType, value) ==
  /\ cPhase = "mounted"
  /\ cFilters' = [cFilters EXCEPT ![filterType] = value]
  /\ filtersRef' = cFilters'
  /\ UNCHANGED <<now, busVars, nodeVars, recvVars, sendVars, histVars, offsetVars, allVars, cPhase,
                 cLoading, cError, transactionData, pagination, paginationRef,
                 cCalls, cTimers>>

\* The Apply Filters button.
applyFiltersCursor ==
  /\ cPhase = "mounted"
  /\ fetchTransactions(TRUE)
  /\ UNCHANGED <<now, busVars, nodeVars, recvVars, sendVars, histVars, offsetVars, allVars, cPhase,
                 transactionData, cFilters, filtersRef, cTimers>>

\* The Reset button: setFilters and fetchTransactions(true) in one run; the
\* request is built before the re-render that updates filtersRef.
resetFilters ==
  /\ cPhase = "mounted"
  /\ cFilters' = NoFilters
  /\ fetchTransactions(TRUE)
  /\ filtersRef' = cFilters'
  /\ UNCHANGED <<now, busVars, nodeVars, recvVars, sendVars, histVars, offsetVars, allVars, cPhase,
                 transactionData, cTimers>>

\* The Load More button, shown when has_more and disabled while loading.
loadMore ==
  /\ cPhase = "mounted"
  /\ transactionData # Null
  /\ ~cLoading
  /\ transactionData.has_more
  /\ Len(transactionData.transactions) + Len(cCalls) < MaxRows
  /\ fetchTransactions(FALSE)
  /\ UNCHANGED <<now, busVars, nodeVars, recvVars, sendVars, histVars, offsetVars, allVars, cPhase,
                 transactionData, cFilters, filtersRef, cTimers>>

\* handlePageSizeChange up to the setTimeout.
handlePageSizeChange(newPageSize) ==
  /\ cPhase = "mounted"
  /\ cTimers < MaxTimers
  /\ pagination' = [offset |-> 0, limit |-> newPageSize,
                    payment_cursor |-> Undefined, invoice_cursor |-> Undefined]
  /\ paginationRef' = pagination'
  /\ cTimers' = cTimers + 1
  /\ UNCHANGED <<now, busVars, nodeVars, recvVars, sendVars, histVars, offsetVars, allVars, cPhase,
                 cLoading, cError, transactionData, cFilters, filtersRef, cCalls>>

\* The timer of handlePageSizeChange runs fetchTransactions(true).
pageSizeTimeout ==
  /\ cTimers > 0
  /\ cTimers' = cTimers - 1
  /\ fetchTransactions(TRUE)
  /\ UNCHANGED <<now, busVars, nodeVars, recvVars, sendVars, histVars, offsetVars, allVars, cPhase,
                 transactionData, cFilters, filtersRef>>

\* The page the node returns for a request: one row that names the offset
\* and the type filter it was selected with.
Row(req) == [offset |-> req.offset, types |-> req.types]

NextCursor(req, withInvoiceCursor) ==
  [offset |-> req.offset + req.limit,
   limit |-> req.limit,
   payment_cursor |-> [at |-> req.offset + req.limit],
   invoice_cursor |-> IF withInvoiceCursor THEN [at |-> req.offset + req.limit]
                      ELSE Null]

\* ListTransactionHistoryResponse values for a request: the last page, or a
\* page with has_more and a next_cursor.
ServerResponses(req) ==
  {r \in [transactions : {<<Row(req)>>},
          offset : {req.offset},
          has_more : BOOLEAN,
          next_cursor : {Null, NextCursor(req, TRUE), NextCursor(req, FALSE)}] :
     r.has_more <=> r.next_cursor # Null}

RemoveAt(seq, i) == SubSeq(seq, 1, i - 1) \o SubSeq(seq, i + 1, Len(seq))

\* The calls still awaited once the i-th has resolved: when it was a reset
\* fetch, the calls issued before it are noted as superseded.
StillAwaited(calls, i) ==
  [k \in 1..(Len(calls) - 1) |->
     IF k < i /\ calls[i].reset THEN [calls[k] EXCEPT !.superseded = TRUE]
     ELSE RemoveAt(calls, i)[k]]

\* listTransactionHistory resolved for the i-th awaited call.
fetchResolved(i, response) ==
  /\ transactionData' =
       IF cCalls[i].reset \/ transactionData = Null THEN response
       ELSE [response EXCEPT !.transactions = transactionData.transactions \o @]
  /\ pagination' =
       IF response.next_cursor # Null
       THEN [offset |-> response.next_cursor.offset,
             limit |-> response.next_cursor.limit,
             payment_cursor |-> OrUndefined(response.next_cursor.payment_cursor),
             invoice_cursor |-> OrUndefined(response.next_cursor.invoice_cursor)]
       ELSE pagination
  /\ paginationRef' = pagination'
  /\ cLoading' = FALSE
  /\ cCalls' = StillAwaited(cCalls, i)
  /\ UNCHANGED <<now, busVars, nodeVars, recvVars, sendVars, histVars, offsetVars, allVars, cPhase,
                 cError, cFilters, filtersRef, cTimers>>

\* listTransactionHistory rejected for the i-th awaited call.
fetchRejected(i) ==
  /\ cError' = Err(<<"Failed to fetch transactions">>)
  /\ cLoading' = FALSE
  /\ cCalls' = RemoveAt(cCalls, i)
  /\ UNCHANGED <<now, busVars, nodeVars, recvVars, sendVars, histVars, offsetVars, allVars, cPhase,
                 transactionData, cFilters, pagination, filtersRef, paginationRef,
                 cTimers>>

InitCursor ==
  /\ cPhase = "initial"
  /\ cLoading = FALSE
  /\ cError = Null
  /\ transactionData = Null
  /\ cFilters = NoFilters
  /\ pagination = [offset |-> 0, limit |-> DefaultLimit,
                   payment_cursor |-> Undefined, invoice_cursor |-> Undefined]
  /\ filtersRef = cFilters
  /\ paginationRef = pagination
  /\ cCalls = <<>>
  /\ cTimers = 0

\* ------------------------------- TransactionHistory, offset-paginated variant
\* The request built by loadTransactions(newOffset) from the filters of the
\* render that created it.
OffsetFilters(newOffset, types) ==
  [limit |-> OffsetPageSize,
   offset |-> newOffset,
   types |-> IF Len(types) > 0 THEN [array |-> types] ELSE Undefined]

\* loadTransactions(newOffset) up to the await, created by a render whose
\* selectedTypes is types.
loadTransactionsOffset(newOffset, types) ==
  /\ Len(oCalls) < MaxOffsetPending
  /\ oLoading' = TRUE
  /\ oError' = Null
  /\ oCalls' = Append(oCalls, [newOffset |-> newOffset,
                               filters |-> OffsetFilters(newOffset, types)])

\* The effect of the first render: loadTransactions(0).
mountOffset ==
  /\ oPhase = "initial"
  /\ oPhase' = "mounted"
  /\ loadTransactionsOffset(0, selectedTypes)
  /\ UNCHANGED <<now, busVars, nodeVars, recvVars, sendVars, histVars, cursorVars, allVars,
                 oTransactions, offset, hasMore, totalCount, selectedTypes>>

\* The Load More button, shown when hasMore and disabled while loading.
loadMoreOffset ==
  /\ oPhase = "mounted"
  /\ ~oLoading /\ hasMore
  /\ Len(oTransactions) + Len(oCalls) < MaxOffsetRows
  /\ loadTransactionsOffset(offset + OffsetPageSize, selectedTypes)
  /\ UNCHANGED <<now, busVars, nodeVars, recvVars, sendVars, histVars, cursorVars, allVars,
                 oPhase, oTransactions, offset, hasMore, totalCount, selectedTypes>>

\* prev.includes(type) ? prev.filter(t => t !== type) : [...prev, type]
Toggle(prev, type) ==
  IF \E k \in 1..Len(prev) : prev[k] = type
  THEN SelectSeq(prev, LAMBDA t : t # type)
  ELSE Append(prev, type)

\* handleTypeChange, and the effect on [loadTransactions] that the re-render
\* runs because selectedTypes changed: loadTransactions(0) with the new
\* filters.
handleTypeChange(type) ==
  /\ oPhase = "mounted"
  /\ selectedTypes' = Toggle(selectedTypes, type)
  /\ loadTransactionsOffset(0, selectedTypes')
  /\ UNCHANGED <<now, busVars, nodeVars, recvVars, sendVars, histVars, cursorVars, allVars,
                 oPhase, oTransactions, offset, hasMore, totalCount>>

\* The Apply Filters button: loadTransactions(0).
applyFiltersOffset ==
  /\ oPhase = "mounted"
  /\ loadTransactionsOffset(0, selectedTypes)
  /\ UNCHANGED <<now, busVars, nodeVars, recvVars, sendVars, histVars, cursorVars, allVars,
                 oPhase, oTransactions, offset, hasMore, totalCount, selectedTypes>>

\* The Reset Filters button: the setters, and the effect that the re-render
\* runs because dateRange is a new object.
resetFiltersOffset ==
  /\ oPhase = "mounted"
  /\ selectedTypes' = <<>>
  /\ loadTransactionsOffset(0, selectedTypes')
  /\ UNCHANGED <<now, busVars, nodeVars, recvVars, sendVars, histVars, cursorVars, allVars,
                 oPhase, oTransactions, offset, hasMore, totalCount>>

\* The responses of listTransactionHistory to a request: one row, the last
\* page or not.
OffsetResponses(req) ==
  {[transactions |-> <<Row(req)>>,
    has_more |-> m,
    total_count |-> req.offset + 1 + (IF m THEN 1 ELSE 0)] : m \in BOOLEAN}

\* listTransactionHistory resolved for the i-th awaited call.
loadResolvedOffset(i, response) ==
  /\ oTransactions' = IF oCalls[i].newOffset = 0 THEN response.transactions
                      ELSE oTransactions \o response.transactions
  /\ offset' = oCalls[i].newOffset
  /\ hasMore' = response.has_more
  /\ totalCount' = response.total_count
  /\ oLoading' = FALSE
  /\ oCalls' = RemoveAt(oCalls, i)
  /\ UNCHANGED <<now, busVars, nodeVars, recvVars, sendVars, histVars, cursorVars, allVars,
                 oPhase, oError, selectedTypes>>

\* listTransactionHistory rejected for the i-th awaited call.
loadRejectedOffset(i) ==
  /\ oError' = Err(<<"Failed to load transactions">>)
  /\ oLoading' = FALSE
  /\ oCalls' = RemoveAt(oCalls, i)
  /\ UNCHANGED <<now, busVars, nodeVars, recvVars, sendVars, histVars, cursorVars, allVars,
                 oPhase, oTransactions, offset, hasMore, totalCount, selectedTypes>>

InitOffset ==
  /\ oPhase = "initial"
  /\ oTransactions = <<>>
  /\ oLoading = TRUE
  /\ oError = Null
  /\ offset = 0
  /\ hasMore = TRUE
  /\ totalCount = 0
  /\ selectedTypes = <<>>
  /\ oCalls = <<>>

\* ------------------------------------ TransactionHistory, fetch-all variant
\* Two of the fetch limits offered by the select.
FetchLimits == {500, InitialFetchLimit}

\* Array.prototype.slice's reading of an index: a negative one counts from
\* the end, and the result is kept within 0..len.
RelativeIndex(index, len) ==
  IF index < 0 THEN (IF len + index < 0 THEN 0 ELSE len + index)
  ELSE (IF index > len THEN len ELSE index)

\* transactions.slice(startIndex, endIndex)
Slice(arr, startIndex, endIndex) ==
  LET from == RelativeIndex(startIndex, Len(arr))
      to == RelativeIndex(endIndex, Len(arr))
  IN IF from < to THEN SubSeq(arr, from + 1, to) ELSE <<>>

\* The value updateDisplayedTransactions(transactions, page) sets
\* displayedTransactions to.
updateDisplayedTransactions(txs, page) ==
  LET startIndex == (page - 1) * PageSize
      endIndex == startIndex + PageSize
  IN Slice(txs, startIndex, endIndex)

\* loadAllTransactions up to the await.
loadAllTransactions ==
  /\ aCalls < MaxAllPending
  /\ aLoading' = TRUE
  /\ aError' = Null
  /\ aCalls' = aCalls + 1

\* The effect of the first render.
mountAll ==
  /\ aPhase = "initial"
  /\ aPhase' = "mounted"
  /\ loadAllTransactions
  /\ UNCHANGED <<now, busVars, nodeVars, recvVars, sendVars, histVars, cursorVars,
                 offsetVars, aTransactions, displayedTransactions, aCurrentPage,
                 aTotalPages, aTotalCount, fetchLimit>>

\* handleFetchLimitChange, and the effect on [loadAllTransactions] that the
\* re-render runs when fetchLimit changed.
handleFetchLimitChange(value) ==
  /\ aPhase = "mounted"
  /\ value # fetchLimit
  /\ fetchLimit' = value
  /\ loadAllTransactions
  /\ UNCHANGED <<now, busVars, nodeVars, recvVars, sendVars, histVars, cursorVars,
                 offsetVars, aPhase, aTransactions, displayedTransactions,
                 aCurrentPage, aTotalPages, aTotalCount>>

\* The Apply Filters button, disabled while loading.
applyFiltersAll ==
  /\ aPhase = "mounted"
  /\ ~aLoading
  /\ loadAllTransactions
  /\ UNCHANGED <<now, busVars, nodeVars, recvVars, sendVars, histVars, cursorVars,
                 offsetVars, aPhase, aTransactions, displayedTransactions,
                 aCurrentPage, aTotalPages, aTotalCount, fetchLimit>>

\* listTransactionHistory resolved with the transactions txs.
loadAllTransactionsResolved(txs) ==
  /\ aCalls > 0
  /\ aCalls' = aCalls - 1
  /\ aTransactions' = txs
  /\ aTotalCount' = Len(txs)
  /\ LET pages == CeilDiv(Len(txs), PageSize)
     IN aTotalPages' = IF pages > 0 THEN pages ELSE 1
  /\ aCurrentPage' = 1
  /\ displayedTransactions' = updateDisplayedTransactions(txs, 1)
  /\ aLoading' = FALSE
  /\ UNCHANGED <<now, busVars, nodeVars, recvVars, sendVars, histVars, cursorVars,
                 offsetVars, aPhase, aError, fetchLimit>>

loadAllTransactionsRejected ==
  /\ aCalls > 0
  /\ aCalls' = aCalls - 1
  /\ aError' = Err(<<"Failed to load transactions">>)
  /\ aLoading' = FALSE
  /\ UNCHANGED <<now, busVars, nodeVars, recvVars, sendVars, histVars, cursorVars,
                 offsetVars, aPhase, aTransactions, displayedTransactions,
                 aCurrentPage, aTotalPages, aTotalCount, fetchLimit>>

\* goToPage without the range test.
goToPage_AnyPage(page) ==
  /\ aPhase = "mounted"
  /\ ~aLoading
  /\ aCurrentPage' = page
  /\ displayedTransactions' = updateDisplayedTransactions(aTransactions, page)
  /\ UNCHANGED <<now, busVars, nodeVars, recvVars, sendVars, histVars, cursorVars,
                 offsetVars, aPhase, aTransactions, aLoading, aError, aTotalPages,
                 aTotalCount, fetchLimit, aCalls>>

goToPage(page) ==
  /\ aPhase = "mounted"
  /\ page >= 1 /\ page <= aTotalPages /\ ~aLoading
  /\ aCurrentPage' = page
  /\ displayedTransactions' = updateDisplayedTransactions(aTransactions, page)
  /\ UNCHANGED <<now, busVars, nodeVars, recvVars, sendVars, histVars, cursorVars,
                 offsetVars, aPhase, aTransactions, aLoading, aError, aTotalPages,
                 aTotalCount, fetchLimit, aCalls>>

\* The transactions of a response: rows 1..n.
AllResponses == {[k \in 1..n |-> k] : n \in 0..MaxAll}

InitAll ==
  /\ aPhase = "initial"
  /\ aTransactions = <<>>
  /\ displayedTransactions = <<>>
  /\ aLoading = TRUE
  /\ aError = Null
  /\ aCurrentPage = 1
  /\ aTotalPages = 1
  /\ aTotalCount = 0
  /\ fetchLimit = InitialFetchLimit
  /\ aCalls = 0

InitReceive ==
  /\ amount = DefaultAmount
  /\ memo = ""
  /\ invoice = Null
  /\ rLoading = FALSE
  /\ rError = Null
  /\ recvCall = NoCall

Init ==
  /\ now \in Instants
  /\ emitted = <<>>
  /\ events = [e \in {} |-> <<>>]
  /\ invoked = <<>>
  /\ nodeInvoices = <<>>
  /\ nodeSettled = {}
  /\ InitReceive
  /\ InitSend
  /\ InitHistory
  /\ InitCursor
  /\ InitOffset
  /\ InitAll

NextReceive ==
  \/ \E a \in Amounts : setAmount(a)
  \/ \E m \in Memos : setMemo(m)
  \/ createInvoice
  \/ createInvoiceResolved
  \/ createInvoiceRejected
  \/ newInvoice
  \/ checkInvoiceStatus
  \/ checkInvoiceStatusResolved
  \/ checkInvoiceStatusRejected
  \/ \E i \in 1..Len(nodeInvoices) : nodeSettleInvoice(nodeInvoices[i])

SpecReceive == Init /\ [][NextReceive]_vars

SpecSend == Init /\ [][NextSend]_vars

SpecHistory == Init /\ [][NextHistory]_vars

SpecFilters == Init /\ [][NextFilters]_vars

\* The page with its three components side by side: every node call each of
\* them makes, resolving or rejecting in any interleaving.
NextCalls ==
  \/ createInvoice
  \/ createInvoiceResolved
  \/ createInvoiceRejected
  \/ checkInvoiceStatus
  \/ checkInvoiceStatusResolved
  \/ checkInvoiceStatusRejected
  \/ \E i \in 1..Len(nodeInvoices) : nodeSettleInvoice(nodeInvoices[i])
  \/ \E v \in PaymentRequests : setPaymentRequest(v)
  \/ sendPayment
  \/ \E result \in {r \in Responses : r.kind = "object"} : sendPaymentResolved(result)
  \/ sendPaymentRejected
  \/ reset
  \/ mountAny
  \/ loadTransactions
  \/ \E ps \in PaymentLists : loadTransactionsResolved(ps, <<>>, <<>>)
  \/ loadTransactionsRejected

SpecCalls == Init /\ [][NextCalls]_vars

\* The event bus under any sequence of on, off and emit calls.
NextBus ==
  \/ \E e \in AppEvent, cb \in EventCallbacks : on(e, cb)
  \/ \E e \in AppEvent, cb \in EventCallbacks : off(e, cb)
  \/ \E e \in AppEvent, id \in 1..MaxInvoices : emit(e, id)

SpecBus == Init /\ [][NextBus]_vars

\* The bus with subscribers that unsubscribe or subscribe from inside their
\* callback.
NextReentrant ==
  \/ \E cb \in EventCallbacks \cup ReentrantCallbacks : on("transaction:new", cb)
  \/ \E cb \in EventCallbacks \cup ReentrantCallbacks : off("transaction:new", cb)
  \/ \E id \in 1..MaxInvoices : emit("transaction:new", id)

SpecReentrant == Init /\ [][NextReentrant]_vars

\* The cursor-paginated transaction history under any order of user actions
\* and responses.
NextCursorHistory ==
  \/ mountCursor
  \/ \E ft \in {"types", "startDate"} :
       \E v \in FilterValues(ft) : handleFilterChange(ft, v)
  \/ applyFiltersCursor
  \/ resetFilters
  \/ loadMore
  \/ \E n \in PageSizes : handlePageSizeChange(n)
  \/ pageSizeTimeout
  \/ \E i \in 1..Len(cCalls) :
       \E r \in ServerResponses(cCalls[i].options) : fetchResolved(i, r)
  \/ \E i \in 1..Len(cCalls) : fetchRejected(i)

SpecCursor == Init /\ [][NextCursorHistory]_vars

\* The offset-paginated TransactionHistory on its own.
NextOffsetHistory ==
  \/ mountOffset
  \/ loadMoreOffset
  \/ handleTypeChange("sent")
  \/ applyFiltersOffset
  \/ resetFiltersOffset
  \/ \E i \in 1..Len(oCalls) : \E response \in OffsetResponses(oCalls[i].filters) :
       loadResolvedOffset(i, response)
  \/ \E i \in 1..Len(oCalls) : loadRejectedOffset(i)

SpecOffset == Init /\ [][NextOffsetHistory]_vars

\* Both client-side paginated histories: the one that filters in the browser
\* and the fetch-all variant.
NextPaging ==
  \/ mount("ok", "ok", "ok")
  \/ loadTransactions
  \/ \E ps \in PaymentLists, si \in InvoiceLists, pi \in PendingLists :
       /\ \A k \in 1..Len(ps) : ps[k].payment_hash = "p1"
       /\ \A k \in 1..Len(si) : si[k].r_hash = "i3"
       /\ \A k \in 1..Len(pi) : pi[k].r_hash = "i1"
       /\ loadTransactionsResolved(ps, si, pi)
  \/ loadTransactionsRejected
  \/ \E v \in {"all", "sent"} : toggleFilterValue("type", v)
  \/ \E page \in 0..(totalPages + 1) : handlePageChange(page)
  \/ mountAll
  \/ \E value \in FetchLimits : handleFetchLimitChange(value)
  \/ applyFiltersAll
  \/ \E txs \in AllResponses : loadAllTransactionsResolved(txs)
  \/ loadAllTransactionsRejected
  \/ \E page \in 0..(aTotalPages + 1) : goToPage(page)

SpecPaging == Init /\ [][NextPaging]_vars

\* ------------------------------------------------------------------ claims
TxNewCount(log) ==
  Cardinality({i \in 1..Len(log) : log[i].event = "transaction:new"})

C1_Step ==
  /\ TxNewCount(emitted') - TxNewCount(emitted) \in {0, 1}
  /\ (TxNewCount(emitted') = TxNewCount(emitted) + 1)
       <=> /\ recvCall.op = "check"
           /\ recvCall' = NoCall
           /\ ~recvCall.invoice.settled
           /\ invoice' # Null
           /\ invoice'.payment_hash = recvCall.invoice.payment_hash
           /\ invoice'.settled
  /\ \A h \in 1..MaxInvoices : EmitCount(emitted', "transaction:new", h) <= 1
  /\ invoice' # Null =>
       (invoice'.settled
          <=> EmitCount(emitted', "transaction:new", invoice'.payment_hash) = 1)

\* C1: for each created invoice, 'transaction:new' is emitted at most once,
\* exactly on the checkInvoiceStatus run that takes the local invoice from
\* unsettled to settled; a check of an already settled invoice, or one that
\* returns unsettled, emits nothing, and the local invoice is settled exactly
\* when that one emission has happened.
C1_EmitOnceOnSettle == [][C1_Step]_vars

\* A second check is awaited for an invoice that is already settled locally.
C1_Witness ==
  /\ recvCall.op = "check"
  /\ recvCall.invoice.settled
  /\ EmitCount(emitted, "transaction:new", recvCall.invoice.payment_hash) = 1

IsDecimal(s) ==
  /\ Len(s) >= 1
  /\ \A i \in 1..Len(s) : s[i] \in Digits
  /\ (Len(s) > 1 => s[1] # 0)

C2_Step ==
  /\ recvCall'.op = "create" =>
       /\ recvCall'.amount > 0
       /\ IsDecimal(recvCall'.request.value_msat)
       /\ ParseNumber(recvCall'.request.value_msat) = recvCall'.amount * 1000
  /\ (recvCall.op = "create" /\ invoice' # Null) =>
       /\ IsDecimal(invoice'.value_msat)
       /\ ParseNumber(invoice'.value_msat) = recvCall.amount * 1000
       /\ invoice'.settled = FALSE

\* C2: createInvoice is only started with an amount A > 0, its addInvoice
\* request carries value_msat = the decimal string of A * 1000, and the
\* invoice stored on success has value_msat = A * 1000 and settled = false.
C2_MsatIsThousandTimesSats == [][C2_Step]_vars

\* The scenario amount = 10, memo = "test": value_msat "10000", unsettled.
C2_Witness ==
  /\ invoice # Null
  /\ invoice.value_msat = <<1, 0, 0, 0, 0>>
  /\ invoice.memo = "test"
  /\ invoice.settled = FALSE

IsStream(raw) == "json" \in DOMAIN raw /\ raw.json.kind = "string"

\* Line i is the last line that is not blank.
IsLastNonBlank(lines, i) ==
  /\ lines[i].t # "blank"
  /\ \A j \in (i + 1)..Len(lines) : lines[j].t = "blank"

IsUpdate(line, status) ==
  /\ line.t = "json"
  /\ HasResult(line.value)
  /\ line.value.result.status = status

\* C4: when the processed response is a newline-delimited stream whose last
\* non-empty line is a SUCCEEDED payment state, the stored payment result is
\* that state, loading is false and error is null, whatever the earlier
\* lines were.
C4_LastLineDecides ==
  IsStream(rawResponse) =>
    \A i \in 1..Len(rawResponse.json.lines) :
      (IsLastNonBlank(rawResponse.json.lines, i)
         /\ IsUpdate(rawResponse.json.lines[i], "SUCCEEDED"))
      => /\ paymentResult = rawResponse.json.lines[i].value
         /\ sLoading = FALSE
         /\ sError = Null

\* The stream IN_FLIGHT, SUCCEEDED has been processed.
C4_Witness ==
  /\ IsStream(rawResponse)
  /\ Len(rawResponse.json.lines) = 2
  /\ IsUpdate(rawResponse.json.lines[1], "IN_FLIGHT")
  /\ IsUpdate(rawResponse.json.lines[2], "SUCCEEDED")
  /\ paymentResult # Null
  /\ paymentResult.result.status = "SUCCEEDED"
  /\ sendCall = NoCall

StoredStatus(pr, status) ==
  IF pr = Null THEN FALSE ELSE pr.result.status = status

C5_Step ==
  /\ (sendCall = NoCall /\ sendCall'.op = "send") =>
       /\ sLoading = FALSE
       /\ sLoading' = TRUE
       /\ sError' = Null
       /\ paymentResult' = Null
  /\ StoredStatus(paymentResult', "SUCCEEDED") =>
       (sLoading' = FALSE /\ sError' = Null)
  /\ StoredStatus(paymentResult', "FAILED") =>
       /\ sLoading' = FALSE
       /\ sError' = Err(<<"Payment failed: ",
                          IF paymentResult'.result.failure_reason = ""
                          THEN "Unknown error"
                          ELSE paymentResult'.result.failure_reason>>)
  /\ (paymentResult' # Null /\ ~StoredStatus(paymentResult', "IN_FLIGHT")) =>
       sLoading' = FALSE

\* C5: sendPayment starts from an idle form and enters sending with loading
\* true and error and result cleared; a stored final status SUCCEEDED means
\* loading false and error null, FAILED means loading false and the error
\* 'Payment failed: <failure_reason or Unknown error>', and every stored
\* status other than IN_FLIGHT means loading false.
C5_SendFlow == [][C5_Step]_vars

\* A failed payment without a failure reason has been reported.
C5_Witness ==
  /\ StoredStatus(paymentResult, "FAILED")
  /\ sError = Err(<<"Payment failed: ", "Unknown error">>)
  /\ sLoading = FALSE

\* C6: while the stored payment state is IN_FLIGHT, loading is true and no
\* action of the send component is enabled: no send, no edit of the invoice
\* input, no reset and no pending response that could end the wait.
C6_InFlightNeverEnds ==
  StoredStatus(paymentResult, "IN_FLIGHT") =>
    (sLoading = TRUE /\ ~ENABLED NextSend)

\* The send response ended with IN_FLIGHT and the spinner is on.
C6_Witness ==
  /\ StoredStatus(paymentResult, "IN_FLIGHT")
  /\ sLoading = TRUE
  /\ sendCall = NoCall

HasEmitted(event) == \E i \in 1..Len(emitted) : emitted[i].event = event

\* C9: after a successfully sent payment the send component has emitted
\* 'payment:sent' on the event bus.
C9_PaymentSentEmitted ==
  StoredStatus(paymentResult, "SUCCEEDED") => HasEmitted("payment:sent")

Floor1000(mSats) == [num |-> ParseNumber(mSats) \div 1000, den |-> 1]

\* C3: for every listed payment, amount and fee of its transaction equal
\* floor(value_msat / 1000) and floor(fee_msat / 1000): whole satoshis.
C3_AmountIsFloor ==
  \A i \in 1..Len(transactions) :
    transactions[i].type = "sent" =>
      /\ transactions[i].amount = Floor1000(transactions[i].rawData.value_msat)
      /\ transactions[i].fee = Floor1000(transactions[i].rawData.fee_msat)

PassesStatus(tx, f) == "all" \in f.status \/ tx.status \in f.status

PassesTime(tx, f, t) ==
  \/ f.timeRange = "all"
  \/ (f.timeRange = "today" /\ tx.date >= t - (t % 86400))
  \/ (f.timeRange = "week" /\ tx.date >= t - 7 * 86400)
  \/ (f.timeRange = "month" /\ tx.date >= t - 30 * 86400)

\* out is what the type filter {sent} must give for the list inp.
SentOnly(out, inp, f, t) ==
  LET Wanted(tx) == tx.type = "sent" /\ PassesStatus(tx, f) /\ PassesTime(tx, f, t)
  IN /\ \A i \in 1..Len(out) : out[i].type # "received"
     /\ out = SelectSeq(inp, Wanted)

C7_Step ==
  /\ (loadCall.op = "load" /\ loadCall' = NoCall /\ hError' = Null
        /\ loadCall.filters.type = {"sent"})
       => SentOnly(filteredTransactions', transactions', loadCall.filters, now)
  /\ (filters' # filters /\ filters'.type = {"sent"})
       => SentOnly(filteredTransactions', transactions, filters', now)

CreationOf(inv) ==
  IF inv.creation_date = <<>> THEN 0 ELSE ParseNumber(inv.creation_date)

ExpiryOf(inv) == IF inv.expiry = <<>> THEN 3600 ELSE ParseNumber(inv.expiry)

\* C8: a listed invoice is flagged isExpired exactly when its state is OPEN
\* and creation_date + expiry (3600 s when absent) is before the time of the
\* load; at or after that time, or in any other state, it is not flagged.
C8_ExpiredIffOpenAndPast ==
  \A i \in 1..Len(transactions) :
    transactions[i].type = "received" =>
      (transactions[i].isExpired
         <=> /\ transactions[i].rawData.state = "OPEN"
             /\ CreationOf(transactions[i].rawData) + ExpiryOf(transactions[i].rawData)
                  < lastUpdated.time)

\* An open invoice without expiry field is flagged one second after its
\* default expiry, next to a settled invoice past its expiry that is not.
C8_Witness ==
  /\ \E i \in 1..Len(transactions) :
       /\ transactions[i].id = "i1"
       /\ transactions[i].isExpired
  /\ \E i \in 1..Len(transactions) :
       /\ transactions[i].id = "i3"
       /\ ~transactions[i].isExpired

\* C10: after unmount no streaming subscription opened on mount is open.
C10_ClosedOnUnmount ==
  hPhase = "unmounted" => openConnections = {}

\* The client was created but a streaming subscription could not be opened.
Degraded == hPhase = "mounted" /\ client # Null /\ cleanup = Null

C11_Step ==
  /\ (hPhase = "initial" /\ Degraded') =>
       /\ hError' = Null
       /\ loadCall'.op = "load"
  /\ Degraded' =>
       /\ hError' # Err(<<"Failed to connect to Lightning Network. Please check your connection.">>)
       /\ loadCall' = NoCall => ~hLoading'
  /\ (Degraded /\ loadCall.op = "load" /\ loadCall' = NoCall /\ hError' = Null) =>
       /\ \E ps \in PaymentLists, si \in InvoiceLists, pi \in PendingLists :
            transactions' = AllTransactions(ps, si, pi, now)
       /\ filteredTransactions' = transactions'
       /\ lastUpdated' # Null

\* C11: when a streaming subscription throws during mount, the error stays
\* null, the node client is stored and the initial load is issued; no later
\* state reports a connection failure, the Refresh action is available
\* whenever no load is in flight, and each load that succeeds stores and
\* displays the transactions the node returned.
C11_DegradesToManualRefresh == [][C11_Step]_vars

\* Without subscriptions, a Refresh is awaited after a first load that
\* displayed transactions.
C11_Witness ==
  /\ Degraded
  /\ loadCall.op = "load"
  /\ lastUpdated # Null
  /\ Len(filteredTransactions) > 0
  /\ hError = Null

C12_Step ==
  /\ createInvoiceRejected =>
       /\ rError' = Err(<<"Failed to create invoice. Please check your node connection.">>)
       /\ rLoading' = FALSE
       /\ invoice' = invoice /\ invoice' = Null
       /\ recvCall' = NoCall
       /\ amount' > 0 => ~(rLoading' \/ amount' <= 0)
  /\ checkInvoiceStatusRejected =>
       /\ rError' = Err(<<"Failed to check payment status.">>)
       /\ rLoading' = FALSE
       /\ invoice' = invoice
       /\ recvCall' = NoCall
  /\ sendPaymentRejected =>
       /\ sError' = Err(<<"Failed to send payment. Please check your invoice and node connection.">>)
       /\ sLoading' = FALSE
       /\ paymentResult' = paymentResult /\ paymentResult' = Null
       /\ sendCall' = NoCall
       /\ paymentRequest' = sendCall.payment_request
       /\ ~(sLoading' \/ paymentRequest' = "") /\ ~TrimIsEmpty(paymentRequest')
  /\ loadTransactionsRejected =>
       /\ hError' = Err(<<"Failed to load transaction history. Please try again later.">>)
       /\ hLoading' = FALSE
       /\ transactions' = transactions
       /\ filteredTransactions' = filteredTransactions
       /\ loadCall' = NoCall
       /\ client' # Null
  /\ (createInvoiceRejected \/ checkInvoiceStatusRejected
        \/ sendPaymentRejected \/ loadTransactionsRejected) =>
       /\ emitted' = emitted
       /\ nodeInvoices' = nodeInvoices

Processes(raw) ==
  /\ sendCall.op = "send"
  /\ sendCall' = NoCall
  /\ rawResponse' = raw
  /\ "json" \in DOMAIN raw

NonBlankCount(lines) == Cardinality({i \in 1..Len(lines) : lines[i].t # "blank"})

\* The response is not an object with a result and does not end in a line
\* that is a payment state.
Malformed(r) ==
  \/ r.kind = "object" /\ ~HasResult(r.value)
  \/ r.kind = "other"
  \/ /\ r.kind = "string"
     /\ \A i \in 1..Len(r.lines) :
          IsLastNonBlank(r.lines, i) =>
            (r.lines[i].t = "garbage" \/ ~HasResult(r.lines[i].value))

\* The message each malformed shape is reported with.
ReportedAs(r) ==
  IF r.kind # "string" THEN "Unrecognized payment response format"
  ELSE IF NonBlankCount(r.lines) = 0 THEN "No valid payment response found"
  ELSE IF \E i \in 1..Len(r.lines) :
            IsLastNonBlank(r.lines, i) /\ r.lines[i].t = "garbage"
       THEN "Unable to parse payment response"
       ELSE "Invalid payment response format"

C13_StepAsStated ==
  \A raw \in {rawResponse'} :
    (Processes(raw) /\ Malformed(raw.json)) =>
      /\ sLoading' = FALSE
      /\ sError' = Err(<<"Unable to parse payment response">>)

\* C13 as stated: every malformed response shape that is processed ends the
\* attempt with loading false and the error 'Unable to parse payment
\* response'.
C13_AlwaysUnableToParse == [][C13_StepAsStated]_vars

C13_Step ==
  \A raw \in {rawResponse'} :
    (Processes(raw) /\ Malformed(raw.json)) =>
      /\ sLoading' = FALSE
      /\ paymentResult' = Null
      /\ sError' = Err(<<ReportedAs(raw.json)>>)
      /\ (sError' = Err(<<"Unable to parse payment response">>)
            <=> /\ raw.json.kind = "string"
                /\ \E i \in 1..Len(raw.json.lines) :
                     /\ IsLastNonBlank(raw.json.lines, i)
                     /\ raw.json.lines[i].t = "garbage")

\* C13 amended: every malformed response shape that processPaymentResponse
\* receives ends the attempt with loading false, no stored result and one of
\* four fixed errors chosen by the shape: 'Unrecognized payment response
\* format' for a value that is neither a string nor an object with a result,
\* 'No valid payment response found' for a string without non-blank line,
\* 'Invalid payment response format' for a last line that parses to a value
\* without result, and 'Unable to parse payment response' exactly when the
\* last non-blank line is not valid JSON.
C13_MalformedReportedByShape == [][C13_Step]_vars

\* A response of blank lines only has been reported as holding no payment
\* response.
C13_Witness ==
  /\ IsStream(rawResponse)
  /\ Len(rawResponse.json.lines) >= 1
  /\ NonBlankCount(rawResponse.json.lines) = 0
  /\ sError = Err(<<"No valid payment response found">>)
  /\ sLoading = FALSE
  /\ sendCall = NoCall

SortedByDateDesc(txs) ==
  \A i \in 1..Len(txs), j \in 1..Len(txs) : i < j => txs[i].date >= txs[j].date

\* sub is made of elements of full, in the order they have in full.
KeepsOrderOf(sub, full) ==
  \E at \in [1..Len(sub) -> 1..Len(full)] :
    /\ \A i \in 1..Len(sub) : sub[i] = full[at[i]]
    /\ \A i \in 1..Len(sub), j \in 1..Len(sub) : i < j => at[i] < at[j]

\* C14: the transaction list is sorted by date, newest first; the filtered
\* list consists of elements of it in the same order, so it is sorted too;
\* and the displayed page is the run of at most pageSize consecutive filtered
\* transactions that starts at (currentPage - 1) * pageSize.
C14_SortedNewestFirst ==
  /\ SortedByDateDesc(transactions)
  /\ KeepsOrderOf(filteredTransactions, transactions)
  /\ SortedByDateDesc(filteredTransactions)
  /\ SortedByDateDesc(getPaginatedTransactions)
  /\ \A i \in 1..Len(getPaginatedTransactions) :
       getPaginatedTransactions[i]
         = filteredTransactions[(currentPage - 1) * PageSize + i]

\* A load whose invoices are newer than its payment has been sorted (the
\* payment, listed first by the node calls, is now between them), filtering
\* has dropped it, and the page shows the two invoices, newest first.
C14_Witness ==
  /\ Len(transactions) = 3
  /\ transactions[1].type = "received"
  /\ transactions[2].type = "sent"
  /\ transactions[1].date > transactions[2].date
  /\ transactions[2].date > transactions[3].date
  /\ filteredTransactions = <<transactions[1], transactions[3]>>
  /\ getPaginatedTransactions = filteredTransactions

\* The registrations for event e, in subscription order.
Registered(evts, e) == IF e \in DOMAIN evts THEN evts[e] ELSE <<>>

Count(arr, x) == Cardinality({i \in 1..Len(arr) : arr[i] = x})

\* after is before with the element at one index holding x taken out.
OneRemoved(before, after, x) ==
  \E i \in 1..Len(before) :
    /\ before[i] = x
    /\ after = [j \in 1..(Len(before) - 1) |->
                  IF j < i THEN before[j] ELSE before[j + 1]]

C15_Step ==
  /\ \A e \in AppEvent, cb \in EventCallbacks :
       /\ on(e, cb) =>
            /\ Registered(events', e) = Append(Registered(events, e), cb)
            /\ \A d \in AppEvent \ {e} : Registered(events', d) = Registered(events, d)
       /\ off(e, cb) =>
            /\ IF Count(Registered(events, e), cb) = 0
               THEN events' = events
               ELSE /\ OneRemoved(Registered(events, e), Registered(events', e), cb)
                    /\ Count(Registered(events', e), cb)
                         = Count(Registered(events, e), cb) - 1
            /\ \A d \in AppEvent \ {e} : Registered(events', d) = Registered(events, d)
            /\ invoked' = invoked
  /\ \A e \in AppEvent, id \in 1..MaxInvoices :
       emit(e, id) =>
         LET active == Registered(events, e)
             calls == SubSeq(invoked', Len(invoked) + 1, Len(invoked'))
         IN /\ SubSeq(invoked', 1, Len(invoked)) = invoked
            /\ Len(calls) = Len(active)
            /\ \A i \in 1..Len(calls) :
                 /\ calls[i].callback = active[i]
                 /\ calls[i].event = e
                 /\ calls[i].id = id
            /\ events' = events

\* C15: on(e, cb) adds one registration of cb at the end of e's list and
\* off(e, cb) takes one registration of cb out of it, or changes nothing when
\* there is none, neither touching another event's list; emit(e, args) then
\* invokes exactly the registrations left for e, one call each, in
\* subscription order and with args, and no callback of another event.
C15_EmitInvokesActiveRegistrations == [][C15_Step]_vars

\* f and g were subscribed to 'transaction:new' in the order g, f and both
\* were invoked by a first emission; g was then unsubscribed and f moved to
\* nothing else: the second emission invoked f alone.
C15_Witness ==
  /\ Registered(events, "transaction:new") = <<[name |-> "f", does |-> "return"]>>
  /\ Len(emitted) = 2
  /\ emitted[1].event = "transaction:new" /\ emitted[2].event = "transaction:new"
  /\ emitted[1].id # emitted[2].id
  /\ Len(invoked) = 3
  /\ invoked[1].callback.name = "g" /\ invoked[1].id = emitted[1].id
  /\ invoked[2].callback.name = "f" /\ invoked[2].id = emitted[1].id
  /\ invoked[3].callback.name = "f" /\ invoked[3].id = emitted[2].id

\* The stored response ends in (or is) an object with a result.
YieldsResult(raw) == "json" \in DOMAIN raw /\ ~Malformed(raw.json)

C16_Step ==
  (sendCall.op = "send" /\ sendCall' = NoCall /\ ~YieldsResult(rawResponse')) =>
    /\ sLoading' = FALSE
    /\ sError' # Null
    /\ paymentResult' = Null
    /\ ~(sLoading' \/ paymentRequest' = "")

\* C16: when the awaited send ends with a response that does not yield an
\* object with a result, the flow ends with loading false, a non-null error
\* and no stored payment result, and the send button is enabled again.
C16_NeverStuckInSending == [][C16_Step]_vars

C17_Step ==
  Len(delivered') = Len(delivered) + 1 =>
    LET ev == delivered'[Len(delivered')]
    IN IF ev.event = "invoice" \/ ev.status \in {"SUCCEEDED", "FAILED"}
       THEN loadCall'.op = "load" /\ hLoading' = TRUE
       ELSE loadCall' = loadCall /\ hLoading' = hLoading

\* C17: when the node client delivers an 'invoice' event, or a
\* 'paymentUpdate' whose status is SUCCEEDED or FAILED, the transaction
\* history has a load from the node in flight right after the listener ran;
\* a 'paymentUpdate' with another status starts no load.
C17_PushTriggersLoad == [][C17_Step]_vars

PassesAll(tx, f, t) ==
  /\ ("all" \in f.type \/ tx.type \in f.type)
  /\ PassesStatus(tx, f)
  /\ PassesTime(tx, f, t)

\* C18: whenever no load is in flight, the filtered list is the current
\* transaction list restricted to the transactions that pass the current
\* type, status and time-range filters.
C18_FilteredMatchesCurrentFilters ==
  (hPhase = "mounted" /\ loadCall = NoCall) =>
    LET Wanted(tx) == PassesAll(tx, filters, now)
    IN filteredTransactions = SelectSeq(transactions, Wanted)

\* The options of the request issued by the step.
IssuedRequest == cCalls'[Len(cCalls')].options

C19_Step ==
  /\ resetFilters =>
       /\ IssuedRequest.types = Undefined
       /\ IssuedRequest.statuses = Undefined
       /\ IssuedRequest.creation_date_start = Undefined
       /\ IssuedRequest.creation_date_end = Undefined
  /\ applyFiltersCursor =>
       /\ IssuedRequest.types = (IF cFilters.types = Null THEN Undefined
                                 ELSE cFilters.types)
       /\ IssuedRequest.statuses = (IF cFilters.statuses = Null THEN Undefined
                                    ELSE cFilters.statuses)
       /\ (IssuedRequest.creation_date_start = Undefined) <=> (cFilters.startDate = Null)
       /\ (IssuedRequest.creation_date_end = Undefined) <=> (cFilters.endDate = Null)

\* C19: the request issued by resetFilters has types, statuses,
\* creation_date_start and creation_date_end undefined, whatever filters were
\* selected before, and the request issued by Apply Filters carries the
\* filters selected with handleFilterChange.
C19_RequestCarriesShownFilters == [][C19_Step]_vars

\* A request for the page that the last received next_cursor names.
FollowsNextCursor(options, data) ==
  /\ data.next_cursor # Null
  /\ options.offset = data.next_cursor.offset
  /\ options.limit = data.next_cursor.limit
  /\ options.payment_cursor = OrUndefined(data.next_cursor.payment_cursor)
  /\ options.invoice_cursor = OrUndefined(data.next_cursor.invoice_cursor)

\* A request for the first page.
FirstPage(options) ==
  /\ options.offset = 0
  /\ options.payment_cursor = Undefined
  /\ options.invoice_cursor = Undefined

C20_Step ==
  /\ loadMore =>
       /\ transactionData.has_more
       /\ FollowsNextCursor(IssuedRequest, transactionData)
  /\ (mountCursor \/ applyFiltersCursor \/ resetFilters \/ pageSizeTimeout) =>
       FirstPage(IssuedRequest)
  /\ \A i \in 1..Len(cCalls) : \A response \in ServerResponses(cCalls[i].options) :
       fetchResolved(i, response) =>
         transactionData'.transactions =
           IF cCalls[i].reset THEN response.transactions
           ELSE transactionData.transactions \o response.transactions

\* C20: in the cursor-paginated history, a Load More step happens only when
\* has_more is true and its request carries the offset, limit and
\* payment/invoice cursors of the next_cursor received last, and its response
\* is appended after the rows already shown; a reset fetch (initial load,
\* apply or reset filters, page-size change) requests offset 0 with no
\* cursors and its response replaces the whole list.
C20_LoadMoreUsesLatestCursor == [][C20_Step]_vars

C21_Step ==
  \A i \in 1..Len(cCalls) : \A response \in ServerResponses(cCalls[i].options) :
    (fetchResolved(i, response) /\ ~cCalls[i].reset /\ cCalls[i].superseded) =>
      /\ transactionData'.transactions = transactionData.transactions
      /\ pagination' = pagination

\* C21: in the cursor-paginated history, when a reset fetch was issued while
\* a Load More request was awaited and the reset response has replaced the
\* list, the response of the earlier request is not appended to the reset
\* list and does not change the stored cursors.
C21_StaleResponseNotAppended == [][C21_Step]_vars

\* The offset of the request issued by the step.
IssuedOffset == oCalls'[Len(oCalls')].newOffset

C22_Step ==
  /\ loadMoreOffset =>
       /\ oCalls = <<>>
       /\ hasMore
       /\ IssuedOffset = offset + OffsetPageSize
  /\ \A i \in 1..Len(oCalls) :
       /\ \A response \in OffsetResponses(oCalls[i].filters) :
            (loadResolvedOffset(i, response) /\ oCalls[i].newOffset # 0) =>
              /\ oTransactions' = oTransactions \o response.transactions
              /\ offset' = oCalls[i].newOffset
              /\ hasMore' = response.has_more
              /\ totalCount' = response.total_count
       /\ loadRejectedOffset(i) =>
            /\ UNCHANGED <<oTransactions, offset, hasMore>>
            /\ oError' # Null

\* C22: in the offset-paginated history, a Load More step happens only when
\* no load is awaited and hasMore is true, and requests offset + pageSize; a
\* resolved page is appended and offset, hasMore and totalCount are updated;
\* a rejected load leaves transactions, offset and hasMore as they were and
\* sets error.
C22_LoadMoreOffset == [][C22_Step]_vars

\* A type or status filter set is not empty and holds "all" only alone.
WellFormed(values) == values # {} /\ ("all" \in values => values = {"all"})

C23_Toggle(filterType, value) ==
  toggleFilterValue(filterType, value) =>
    /\ value = "all" => filters'[filterType] = {"all"}
    /\ value # "all" =>
         /\ (value \notin filters[filterType]) =>
              filters'[filterType] = (filters[filterType] \ {"all"}) \cup {value}
         /\ (filters[filterType] = {value}) => filters'[filterType] = {"all"}
         /\ (value \in filters[filterType] /\ filters[filterType] # {value}) =>
              filters'[filterType] = filters[filterType] \ {value}

C23_Step ==
  /\ \A v \in TypeValues : C23_Toggle("type", v)
  /\ \A v \in StatusValues : C23_Toggle("status", v)

\* C23: the type and status filter sets are never empty and never hold 'all'
\* together with another value; toggling 'all' sets the set to exactly
\* {'all'}, toggling another value in removes 'all', and toggling the last
\* specific value out restores {'all'}.
C23_FilterSetsWellFormed ==
  /\ [](WellFormed(filters.type) /\ WellFormed(filters.status))
  /\ [][C23_Step]_vars

\* Two specific types are selected and 'all' is gone; the one status chosen
\* has replaced 'all'.
C23_Witness ==
  /\ filters.type = {"sent", "received"}
  /\ filters.status = {"OPEN"}

\* max(1, ceil(n / pageSize))
PagesFor(n) == IF CeilDiv(n, PageSize) > 1 THEN CeilDiv(n, PageSize) ELSE 1

PagingInvariant ==
  /\ 1 <= currentPage /\ currentPage <= totalPages
  /\ totalPages = PagesFor(Len(filteredTransactions))
  /\ 1 <= aCurrentPage /\ aCurrentPage <= aTotalPages
  /\ aTotalPages = PagesFor(Len(aTransactions))

Pages == 0..(MaxAll + 1)

C24_Step ==
  /\ (\E page \in Pages : handlePageChange(page)) =>
       (currentPage' \in 1..totalPages /\ UNCHANGED <<filteredTransactions, totalPages>>)
  /\ \A page \in Pages : (page < 1 \/ page > totalPages) => ~ENABLED handlePageChange(page)
  /\ (\E page \in Pages : goToPage(page)) =>
       (aCurrentPage' \in 1..aTotalPages /\ UNCHANGED <<aTransactions, aTotalPages>>)
  /\ \A page \in Pages : (page < 1 \/ page > aTotalPages) => ~ENABLED goToPage(page)
  /\ (\E v \in TypeValues : toggleFilterValue("type", v)) => currentPage' = 1
  /\ loadTransactionsResolvedAny => currentPage' = 1
  /\ (\E txs \in AllResponses : loadAllTransactionsResolved(txs)) => aCurrentPage' = 1

\* C24: in the client-side paginated histories, 1 <= currentPage <= totalPages
\* and totalPages = max(1, ceil(|filtered list| / pageSize)) in every
\* reachable state; a page change to a page outside 1..totalPages is
\* ignored, and every re-filter and every completed reload sets currentPage
\* to 1.
C24_PaginationInRange ==
  /\ []PagingInvariant
  /\ [][C24_Step]_vars

\* Both histories show the second of two pages.
C24_Witness ==
  /\ currentPage = 2 /\ totalPages = 2 /\ Len(filteredTransactions) = 3
  /\ aCurrentPage = 2 /\ aTotalPages = 2 /\ Len(aTransactions) = 3
  /\ displayedTransactions = <<3>>

C25_Step ==
  /\ (invoice = Null /\ invoice' # Null) => createInvoiceResolved
  /\ (invoice = Null /\ checkInvoiceStatusResolved) =>
       (invoice' = Null /\ emitted' = emitted)

\* C25: once New Invoice has set the local invoice to null, invoice stays
\* null until a createInvoice succeeds; a checkInvoiceStatus that was awaited
\* when New Invoice was clicked neither restores the discarded invoice nor
\* emits 'transaction:new' for it.
C25_DiscardedInvoiceStaysDiscarded == [][C25_Step]_vars

C26_Step ==
  /\ sendPayment => (sendCall = NoCall /\ sLoading')
  /\ sLoading => (~ENABLED sendPayment /\ ~ENABLED sendPaymentBlank)
  /\ sendPaymentBlank =>
       /\ sError' # Null
       /\ UNCHANGED <<sendCall, sLoading, paymentResult, rawResponse, paymentRequest>>
  /\ (sendCall' # sendCall /\ sendCall' # NoCall) =>
       (sendPayment /\ ~TrimIsEmpty(paymentRequest))

\* C26: at most one sendPaymentV2 call is outstanding: a call starts only
\* when none is awaited, loading is true for as long as the call is awaited,
\* the send action is disabled whenever loading is true, and sendPayment with
\* an empty or whitespace-only invoice makes no node call and only sets an
\* error.
C26_OneOutstandingSend ==
  /\ [](sendCall # NoCall => sLoading)
  /\ [][C26_Step]_vars

\* One call is awaited, for a real invoice, and loading is true.
C26_Witness ==
  /\ sendCall # NoCall
  /\ sLoading
  /\ sendCall.payment_request = "lnbc1"

\* The calls the step has added to the invocation log.
NewCalls == SubSeq(invoked', Len(invoked) + 1, Len(invoked'))

C27_Step ==
  \A e \in AppEvent, id \in 1..MaxInvoices :
    emit(e, id) =>
      LET active == Registered(events, e)
      IN /\ \A i \in 1..Len(active) :
              /\ i <= Len(NewCalls)
              /\ NewCalls[i].callback = active[i]
              /\ NewCalls[i].outcome =
                   (IF active[i].does = "throw" THEN "caught" ELSE "returned")
         /\ \A i \in 1..Len(NewCalls) : NewCalls[i].outcome # "thrown"
         /\ emitted' = Emit(emitted, e, id)

\* C27: during emit a callback that throws does not stop the emission: its
\* exception is caught, every other callback registered for the event is
\* still invoked, and no exception leaves emit.
C27_ThrowDoesNotStopEmit == [][C27_Step]_vars

\* One emission in which the thrower was invoked first and the callback
\* subscribed after it was invoked all the same.
C27_Witness ==
  \E i \in 1..(Len(invoked) - 1) :
    /\ invoked[i].outcome = "caught"
    /\ invoked[i + 1].outcome = "returned"
    /\ invoked[i + 1].event = invoked[i].event
    /\ Len(emitted) = 1

C28_Step ==
  \A id \in 1..MaxInvoices :
    emit("transaction:new", id) =>
      LET active == Registered(events, "transaction:new")
      IN \A i \in 1..Len(active) :
           Cardinality({k \in 1..Len(NewCalls) : NewCalls[k].callback = active[i]})
             = Count(active, active[i])

\* C28: every callback registered for an event when emit starts is invoked
\* exactly once per registration during that emission, also when a callback
\* calls off (for itself or for another callback of the event) or on while
\* the emission is in progress.
C28_InvokedOnceDespiteReentrancy == [][C28_Step]_vars

\* C29: the unified list built by loadTransactions holds at most one entry
\* per node identity (payment hash or invoice r_hash): no two transactions
\* share an id, whatever the two listInvoices calls return, also when both
\* return the same invoice.
C29_UniqueIds ==
  \A i, j \in 1..Len(transactions) :
    i # j => transactions[i].id # transactions[j].id
====
